---- MODULE Spec2Model ----
(***************************************************************************)
(* Model of the extended transaction format codec of tokenized/arc         *)
(* (package tef: Serialize, Deserialize, DeserializeTxID) and of the       *)
(* callers that drive it over one byte buffer.                             *)
(*                                                                         *)
(* Bytes are the integers 0..255 and a stream is a sequence of bytes.      *)
(* Fixed width integers (version, lock time, value, index, sequence) are   *)
(* kept as their big-endian base-256 digits, most significant first, so    *)
(* that 0xEF000000 is <<239, 0, 0, 0>>; the little-endian wire form is the *)
(* reversed digit sequence.  Counts are ordinary integers.                 *)
(* The double SHA-256 is modelled as a collision free function: the hash   *)
(* of a byte sequence is the tagged byte sequence itself.                  *)
(***************************************************************************)
EXTENDS Integers, Sequences, FiniteSets, TLC

\* ------------------------------------------------------------------ bounds
\* Total number of input and output records carried by the transactions
\* written to one buffer.
MaxRecords == 2
\* Number of transactions written back-to-back into one buffer.
MaxTxs == 2
\* Number of invocations of the codec that run at the same time.
MaxCalls == 2
\* Number of calls a caller makes on its client.
MaxClientCalls == 1

\* --------------------------------------------------------------- constants
\* MarkerLockTime with the bytes of the value in wire order.
MarkerLockTimeWireOrder == <<0, 0, 0, 239>>

MarkerLockTime == <<239, 0, 0, 0>>

Marker == <<0, 0, 0, 0, 0, 239>>

\* --------------------------------------------------------------- sequences
Reverse(s) == [i \in 1..Len(s) |-> s[Len(s) + 1 - i]]

Repeat(b, n) == [i \in 1..n |-> b]

RECURSIVE Flatten(_)
Flatten(ss) == IF ss = <<>> THEN <<>> ELSE Head(ss) \o Flatten(Tail(ss))

\* ------------------------------------------------------------ binary write
\* binary.Write(w, binary.LittleEndian, v): least significant byte first.
LittleEndianPut(digits) == Reverse(digits)

\* binary.LittleEndian decoding of the bytes read into a fixed width integer.
LittleEndianGet(bytes) == Reverse(bytes)

\* wire.WriteVarInt: the canonical variable length encoding of a count.
WriteVarInt(n) ==
    IF n < 253 THEN <<n>>
    ELSE IF n <= 65535 THEN <<253, n % 256, n \div 256>>
    ELSE <<254, n % 256, (n \div 256) % 256, (n \div 65536) % 256, n \div 16777216>>

\* wire.WriteVarBytes: a length prefixed byte string.
WriteVarBytes(b) == WriteVarInt(Len(b)) \o b

\* wire.TxIn.Serialize: outpoint hash, outpoint index, script, sequence.
TxInSerialize(in) ==
    in.Hash \o LittleEndianPut(in.Index) \o WriteVarBytes(in.UnlockingScript)
            \o LittleEndianPut(in.Sequence)

\* wire.TxOut.Serialize: value, locking script.
TxOutSerialize(out) ==
    LittleEndianPut(out.Value) \o WriteVarBytes(out.LockingScript)

\* bitcoin.Hash32.IsZero
IsZero(hash) == \A i \in 1..Len(hash) : hash[i] = 0

\* The zero value wire.TxOut{}.
EmptyTxOut == [Value |-> Repeat(0, 8), LockingScript |-> <<>>]

\* wire.MsgTx.Serialize: the plain format.
MsgTxSerialize(msgTx) ==
    LittleEndianPut(msgTx.Version)
        \o WriteVarInt(Len(msgTx.TxIn))
        \o Flatten([i \in 1..Len(msgTx.TxIn) |-> TxInSerialize(msgTx.TxIn[i])])
        \o WriteVarInt(Len(msgTx.TxOut))
        \o Flatten([i \in 1..Len(msgTx.TxOut) |-> TxOutSerialize(msgTx.TxOut[i])])
        \o LittleEndianPut(msgTx.LockTime)

\* bitcoin.Hash32(sha256.Sum256(sha256.Sum(b))), collision free.
DoubleHash(b) == <<"sha256d", b>>

\* wire.MsgTx.TxHash: the identifier is the hash of the plain serialization.
TxHash(msgTx) == DoubleHash(MsgTxSerialize(msgTx))

\* bitcoin.Hash32{}
ZeroHash == <<"zero">>

\* ---------------------------------------------------------------- Serialize
\* One w.Write call: the field it belongs to, the input or output index
\* (0 when the field has none) and the bytes written.
Chunk(kind, index, bytes) == [kind |-> kind, index |-> index, bytes |-> bytes]

ChunkBytes(chunks) == Flatten([i \in 1..Len(chunks) |-> chunks[i].bytes])

\* SerializeExtendedInput: the input record followed by the output record.
SerializeExtendedInput(index, input, output) ==
    << Chunk("input", index, TxInSerialize(input)),
       Chunk("spent output", index, TxOutSerialize(output)) >>

\* What the resolver answers: the spent output, or an error.
Resolved(output) == [err |-> "", output |-> output]

Missing == [err |-> "missing input", output |-> EmptyTxOut]

\* InputOutput with the error of the resolver dropped.
InputOutputErrorDropped(tx, index) == [err |-> "", output |-> tx.Spent[index].output]

\* tx.InputOutput(index): the resolver of the spent output of an input.
InputOutput(tx, index) == tx.Spent[index]

\* The body of the input loop of Serialize for the inputs index..inputCount.
RECURSIVE SerializeInputs(_, _)
SerializeInputs(tx, index) ==
    IF index > Len(tx.TxIn) THEN [chunks |-> <<>>, err |-> ""]
    ELSE
      LET input == tx.TxIn[index]
          coinbase == IF IsZero(input.Hash)
                      THEN SerializeExtendedInput(index, input, EmptyTxOut)
                      ELSE <<>>
          inputOutput == InputOutput(tx, index)
      IN  IF inputOutput.err # ""
          THEN [chunks |-> coinbase, err |-> "input output"]
          ELSE LET rest == SerializeInputs(tx, index + 1)
               IN  [chunks |-> coinbase
                                 \o SerializeExtendedInput(index, input, inputOutput.output)
                                 \o rest.chunks,
                    err |-> rest.err]

\* SerializeHead writing the marker whatever the input count.
SerializeHeadAlwaysMarker(tx) ==
    << Chunk("version", 0, LittleEndianPut(tx.Version)),
       Chunk("marker", 0, Marker),
       Chunk("input count", 0, WriteVarInt(Len(tx.TxIn))) >>

\* SerializeHead writing the input count before the marker.
SerializeHeadCountFirst(tx) ==
    << Chunk("version", 0, LittleEndianPut(tx.Version)),
       Chunk("input count", 0, WriteVarInt(Len(tx.TxIn))) >>
      \o (IF Len(tx.TxIn) > 0 THEN << Chunk("marker", 0, Marker) >> ELSE <<>>)

\* The start of Serialize: the version, the marker when the transaction has
\* inputs, and the input count.
SerializeHead(tx) ==
    LET inputCount == Len(tx.TxIn)
    IN  << Chunk("version", 0, LittleEndianPut(tx.Version)) >>
          \o (IF inputCount > 0 THEN << Chunk("marker", 0, Marker) >> ELSE <<>>)
          \o << Chunk("input count", 0, WriteVarInt(inputCount)) >>

\* Serialize(w, tx): the writes made on w, in order, and the error returned.
\* The writer is a bytes.Buffer, whose Write never fails.
Serialize(tx) ==
    LET outputCount == Len(tx.TxOut)
        head == SerializeHead(tx)
        inputs == SerializeInputs(tx, 1)
    IN  IF inputs.err # ""
        THEN [chunks |-> head \o inputs.chunks, err |-> inputs.err]
        ELSE [chunks |-> head \o inputs.chunks
                           \o << Chunk("output count", 0, WriteVarInt(outputCount)) >>
                           \o [i \in 1..outputCount |->
                                  Chunk("output", i, TxOutSerialize(tx.TxOut[i]))]
                           \o << Chunk("lock time", 0, LittleEndianPut(tx.LockTime)) >>,
              err |-> ""]

\* tx.GetMsgTx(): the transaction without the resolver.
GetMsgTx(tx) ==
    [Version |-> tx.Version, TxIn |-> tx.TxIn, TxOut |-> tx.TxOut,
     LockTime |-> tx.LockTime]

\* The *expanded_tx.ExpandedTx that Deserialize returns, handed to Serialize
\* as a TransactionWithOutputs: it has no ancestors, so InputOutput(index)
\* answers SpentOutputs[index] and fails where there is none.
TransactionWithOutputs(etx) ==
    [Version |-> etx.Tx.Version, TxIn |-> etx.Tx.TxIn,
     Spent |-> [i \in 1..Len(etx.Tx.TxIn) |->
                  IF i <= Len(etx.SpentOutputs) THEN Resolved(etx.SpentOutputs[i])
                  ELSE Missing],
     TxOut |-> etx.Tx.TxOut, LockTime |-> etx.Tx.LockTime]

\* ------------------------------------------------------------- binary read
\* io.ReadFull on a bytes.Reader over s whose cursor is p (bytes consumed):
\* a short read consumes what is left and fails.
ReadFull(s, p, n) ==
    IF n <= Len(s) - p
    THEN [ok |-> TRUE, bytes |-> SubSeq(s, p + 1, p + n), pos |-> p + n]
    ELSE [ok |-> FALSE, bytes |-> <<>>, pos |-> Len(s)]

\* One read of the stream: field, index, cursor before and after.
Rd(kind, index, from, to) == [kind |-> kind, index |-> index, from |-> from, to |-> to]

\* The count held by big-endian digits; counts of 2^24 or more are all
\* represented by 16777216, which exceeds the length of every stream here.
RECURSIVE ToCount(_)
ToCount(digits) ==
    IF digits = <<>> THEN 0
    ELSE IF Len(digits) > 3 /\ digits[1] # 0 THEN 16777216
    ELSE LET rest == ToCount(Tail(digits))
         IN  IF Len(digits) > 3 THEN rest
             ELSE IF rest >= 16777216 THEN rest
             ELSE digits[1] * (IF Len(digits) = 3 THEN 65536
                               ELSE IF Len(digits) = 2 THEN 256 ELSE 1) + rest

\* wire.ReadVarInt: the discriminant byte, then 0, 2, 4 or 8 bytes; an
\* encoding that a shorter form could hold is rejected as non canonical.
\* The result holds the count (val) and its big-endian digits.
ReadVarInt(s, p) ==
    LET d == ReadFull(s, p, 1)
    IN  IF ~d.ok THEN [ok |-> FALSE, val |-> 0, digits |-> <<>>, pos |-> d.pos]
        ELSE
          LET discriminant == d.bytes[1]
              width == IF discriminant = 255 THEN 8
                       ELSE IF discriminant = 254 THEN 4
                       ELSE IF discriminant = 253 THEN 2 ELSE 0
          IN  IF width = 0
              THEN [ok |-> TRUE, val |-> discriminant, digits |-> <<discriminant>>,
                    pos |-> d.pos]
              ELSE
                LET b == ReadFull(s, d.pos, width)
                    digits == LittleEndianGet(b.bytes)
                    canonical ==
                        IF width = 2 THEN digits[1] # 0 \/ digits[2] >= 253
                        ELSE IF width = 4 THEN digits[1] # 0 \/ digits[2] # 0
                        ELSE \E i \in 1..4 : digits[i] # 0
                IN  IF ~b.ok THEN [ok |-> FALSE, val |-> 0, digits |-> <<>>, pos |-> b.pos]
                    ELSE IF ~canonical
                    THEN [ok |-> FALSE, val |-> 0, digits |-> <<>>, pos |-> b.pos]
                    ELSE [ok |-> TRUE, val |-> ToCount(digits), digits |-> digits,
                          pos |-> b.pos]

\* wire.ReadVarBytes: a length and that many bytes.
ReadVarBytes(s, p) ==
    LET count == ReadVarInt(s, p)
    IN  IF ~count.ok THEN [ok |-> FALSE, bytes |-> <<>>, pos |-> count.pos]
        ELSE ReadFull(s, count.pos, count.val)

\* binary.Read(r, binary.LittleEndian, &v) for a 32 bit integer.
ReadUint32(s, p) ==
    LET b == ReadFull(s, p, 4)
    IN  [ok |-> b.ok, val |-> LittleEndianGet(b.bytes), pos |-> b.pos]

\* wire.TxIn.Deserialize
TxInDeserialize(s, p) ==
    LET hash == ReadFull(s, p, 32)
        index == ReadUint32(s, hash.pos)
        script == ReadVarBytes(s, index.pos)
        sequence == ReadUint32(s, script.pos)
        nil == [Hash |-> <<>>, Index |-> <<>>, UnlockingScript |-> <<>>, Sequence |-> <<>>]
    IN  IF ~hash.ok THEN [ok |-> FALSE, val |-> nil, pos |-> hash.pos]
        ELSE IF ~index.ok THEN [ok |-> FALSE, val |-> nil, pos |-> index.pos]
        ELSE IF ~script.ok THEN [ok |-> FALSE, val |-> nil, pos |-> script.pos]
        ELSE IF ~sequence.ok THEN [ok |-> FALSE, val |-> nil, pos |-> sequence.pos]
        ELSE [ok |-> TRUE,
              val |-> [Hash |-> hash.bytes, Index |-> index.val,
                       UnlockingScript |-> script.bytes, Sequence |-> sequence.val],
              pos |-> sequence.pos]

\* wire.TxOut.Deserialize
TxOutDeserialize(s, p) ==
    LET value == ReadFull(s, p, 8)
        script == ReadVarBytes(s, value.pos)
    IN  IF ~value.ok THEN [ok |-> FALSE, val |-> EmptyTxOut, pos |-> value.pos]
        ELSE IF ~script.ok THEN [ok |-> FALSE, val |-> EmptyTxOut, pos |-> script.pos]
        ELSE [ok |-> TRUE,
              val |-> [Value |-> LittleEndianGet(value.bytes),
                       LockingScript |-> script.bytes],
              pos |-> script.pos]

\* -------------------------------------------------------------- Deserialize
\* Deserialize and DeserializeTxID are modelled read by read: the state of a
\* call holds what the next read is (pc), the cursor of the reader, the
\* branch taken so far ("none" until the values read decide it), what was
\* decoded, and the reads made.

\* The bytes of the stream between two cursor positions.
Raw(s, from, to) == SubSeq(s, from + 1, to)

\* The zero value wire.MsgTx{}.
EmptyMsgTx ==
    [Version |-> Repeat(0, 4), TxIn |-> <<>>, TxOut |-> <<>>, LockTime |-> Repeat(0, 4)]

\* The start of Deserialize(r) with the cursor of r at p.
DeserializeStart(p) ==
    [pc |-> "version", pos |-> p, err |-> "", branch |-> "none",
     inputCount |-> 0, outputCount |-> 0,
     Tx |-> EmptyMsgTx, SpentOutputs |-> <<>>, reads |-> <<>>]

\* One read of r in Deserialize: when it fails the call returns the error,
\* otherwise the call goes on in the state next.
Read(st, kind, index, r, next) ==
    IF r.ok
    THEN [next EXCEPT !.pos = r.pos,
                      !.reads = Append(st.reads, Rd(kind, index, st.pos, r.pos))]
    ELSE [st EXCEPT !.pc = "failed", !.err = kind, !.pos = r.pos,
                    !.reads = Append(st.reads, Rd(kind, index, st.pos, r.pos))]

\* make([]*wire.TxIn, count) with a count read from the stream panics when
\* the count is out of range for a slice of pointers (2^45 elements or more
\* on a 64 bit build); the call then returns nothing.  Otherwise the call
\* goes on in the state next.
LenOutOfRange(digits) ==
    Len(digits) = 8 /\ (digits[1] # 0 \/ digits[2] # 0 \/ digits[3] >= 32)

Make(st, count, next) ==
    IF LenOutOfRange(count.digits)
    THEN [st EXCEPT !.pc = "panic", !.err = "makeslice: len out of range"]
    ELSE next

\* binary.Read(r, endian, &msgTx.Version)
DeserializeVersion(s, st) ==
    LET r == ReadUint32(s, st.pos)
    IN  Read(st, "version", 0, r, [st EXCEPT !.pc = "input count", !.Tx.Version = r.val])

\* inputCount, err := wire.ReadVarInt(r); if inputCount > 0 the transaction
\* is not extended.
DeserializeInputCount(s, st) ==
    LET r == ReadVarInt(s, st.pos)
    IN  Read(st, "input count", 0, r,
             IF r.val > 0
             THEN Make([st EXCEPT !.branch = "PlainWithInputs"], r,
                       [st EXCEPT !.pc = "input", !.branch = "PlainWithInputs",
                                  !.inputCount = r.val])
             ELSE [st EXCEPT !.pc = "output count"])

\* One turn of an input loop: txin.Deserialize, or in the extended branch
\* the input of DeserializeExtendedOutput.
DeserializeInput(s, st) ==
    IF Len(st.Tx.TxIn) >= st.inputCount THEN [st EXCEPT !.pc = "output count"]
    ELSE LET r == TxInDeserialize(s, st.pos)
         IN  Read(st, "input", Len(st.Tx.TxIn) + 1, r,
                  [st EXCEPT !.pc = IF st.branch = "Extended" THEN "spent output"
                                    ELSE "input",
                             !.Tx.TxIn = Append(@, r.val)])

\* The output of DeserializeExtendedOutput, stored in spentOutputs.
DeserializeSpentOutput(s, st) ==
    LET r == TxOutDeserialize(s, st.pos)
    IN  Read(st, "spent output", Len(st.Tx.TxIn), r,
             [st EXCEPT !.pc = "input",
                        !.SpentOutputs =
                            Append(@, [Value |-> r.val.Value,
                                       LockingScript |-> r.val.LockingScript])])

\* DeserializeOutputCount going on to the lock time when there are outputs
\* and no inputs.
DeserializeOutputCountSkipsOutputs(s, st) ==
    LET r == ReadVarInt(s, st.pos)
    IN  Read(st, "output count", 0, r,
             IF st.branch # "none"
             THEN Make(st, r, [st EXCEPT !.pc = "output", !.outputCount = r.val])
             ELSE IF r.val > 0
             THEN [st EXCEPT !.pc = "lock time", !.branch = "PlainZeroInputs"]
             ELSE [st EXCEPT !.pc = "lock time"])

\* outputCount, err := wire.ReadVarInt(r): after a zero input count a count
\* > 0 means no inputs and not extended; in the other branches (and in
\* readOutputs) it is the output count.
DeserializeOutputCount(s, st) ==
    LET r == ReadVarInt(s, st.pos)
    IN  Read(st, "output count", 0, r,
             IF st.branch # "none"
             THEN Make(st, r, [st EXCEPT !.pc = "output", !.outputCount = r.val])
             ELSE IF r.val > 0
             THEN Make([st EXCEPT !.branch = "PlainZeroInputs"], r,
                       [st EXCEPT !.pc = "output", !.branch = "PlainZeroInputs",
                                  !.outputCount = r.val])
             ELSE [st EXCEPT !.pc = "lock time"])

\* One turn of an output loop: txout.Deserialize.
DeserializeOutput(s, st) ==
    IF Len(st.Tx.TxOut) >= st.outputCount THEN [st EXCEPT !.pc = "lock time"]
    ELSE LET r == TxOutDeserialize(s, st.pos)
         IN  Read(st, "output", Len(st.Tx.TxOut) + 1, r,
                  [st EXCEPT !.Tx.TxOut = Append(@, r.val)])

\* DeserializeLockTime without the comparison with MarkerLockTime.
DeserializeLockTimeNoMarker(s, st) ==
    LET r == ReadUint32(s, st.pos)
    IN  Read(st, "lock time", 0, r,
             IF st.branch # "none"
             THEN [st EXCEPT !.pc = "done", !.Tx.LockTime = r.val]
             ELSE [st EXCEPT !.pc = "done", !.branch = "PlainEmpty",
                             !.Tx.LockTime = r.val])

\* binary.Read(r, endian, &msgTx.LockTime): after two zero counts a value
\* other than MarkerLockTime ends the transaction, MarkerLockTime means that
\* the transaction is extended; in the other branches it ends the transaction.
DeserializeLockTime(s, st) ==
    LET r == ReadUint32(s, st.pos)
    IN  Read(st, "lock time", 0, r,
             IF st.branch # "none"
             THEN [st EXCEPT !.pc = "done", !.Tx.LockTime = r.val]
             ELSE IF r.val # MarkerLockTime
             THEN [st EXCEPT !.pc = "done", !.branch = "PlainEmpty",
                             !.Tx.LockTime = r.val]
             ELSE [st EXCEPT !.pc = "actual input count", !.branch = "Extended",
                             !.Tx.LockTime = r.val])

\* count, err := wire.ReadVarInt(r): the actual input count.
DeserializeActualInputCount(s, st) ==
    LET r == ReadVarInt(s, st.pos)
    IN  Read(st, "actual input count", 0, r,
             Make(st, r, [st EXCEPT !.pc = "input", !.inputCount = r.val]))

\* The next read of a Deserialize call.
DeserializeStep(s, st) ==
    CASE st.pc = "version" -> DeserializeVersion(s, st)
      [] st.pc = "input count" -> DeserializeInputCount(s, st)
      [] st.pc = "input" -> DeserializeInput(s, st)
      [] st.pc = "spent output" -> DeserializeSpentOutput(s, st)
      [] st.pc = "output count" -> DeserializeOutputCount(s, st)
      [] st.pc = "output" -> DeserializeOutput(s, st)
      [] st.pc = "lock time" -> DeserializeLockTime(s, st)
      [] st.pc = "actual input count" -> DeserializeActualInputCount(s, st)

RECURSIVE DeserializeRun(_, _)
DeserializeRun(s, st) ==
    IF st.pc \in {"done", "failed", "panic"} THEN st
    ELSE DeserializeRun(s, DeserializeStep(s, st))

\* SpentOutputsField with the outputs from the last input back.
SpentOutputsBackwards(st) ==
    [i \in 1..Len(st.SpentOutputs) |-> st.SpentOutputs[Len(st.SpentOutputs) + 1 - i]]

\* The SpentOutputs field of the result: spentOutputs in the extended
\* branch, nil in the plain branches.
SpentOutputsField(st) == st.SpentOutputs

\* What Deserialize returns: (&expanded_tx.ExpandedTx{...}, nil) or (nil, err);
\* a call that panicked has not returned.
DeserializeReturn(st) ==
    [err |-> st.err, returned |-> st.pc # "panic",
     branch |-> st.branch, pos |-> st.pos, reads |-> st.reads,
     result |-> IF st.pc = "done"
                THEN [nil |-> FALSE, Tx |-> st.Tx, SpentOutputs |-> SpentOutputsField(st)]
                ELSE [nil |-> TRUE]]

\* Deserialize(r) on the stream s with the cursor at p.
Deserialize(s, p) == DeserializeReturn(DeserializeRun(s, DeserializeStart(p)))

\* ---------------------------------------------------------- DeserializeTxID
\* The start of DeserializeTxID(r) with the cursor of r at p.
TxIDStart(p) ==
    [pc |-> "version", pos |-> p, err |-> "", branch |-> "none",
     inputCount |-> 0, outputCount |-> 0, inputs |-> 0, outputs |-> 0,
     hashed |-> <<>>, reads |-> <<>>]

\* Every read goes through the tee, the paired outputs included.
TeedEveryRead(branch, kind) == kind = "version" \/ branch # "none"

\* Whether a read is made on tee (and so forwarded to the hasher) or on r:
\* the version and, once the branch is known, everything but the output
\* paired with an input are read on tee.
Teed(branch, kind) == kind = "version" \/ (branch # "none" /\ kind # "spent output")

\* One read in DeserializeTxID, on tee or on r.
TxIDRead(s, st, kind, index, r, next) ==
    LET hashed == IF Teed(st.branch, kind) THEN st.hashed \o Raw(s, st.pos, r.pos)
                  ELSE st.hashed
        reads == Append(st.reads, Rd(kind, index, st.pos, r.pos))
    IN  IF r.ok
        THEN [next EXCEPT !.pos = r.pos, !.reads = reads,
                          !.hashed = hashed \o (next.hashed)]
        ELSE [st EXCEPT !.pc = "failed", !.err = kind, !.pos = r.pos, !.reads = reads,
                        !.hashed = hashed]

\* The state after a read, with what the call writes to the hasher itself.
TxIDNext(st, pc, branch, written) ==
    [st EXCEPT !.pc = pc, !.branch = branch, !.hashed = written]

\* binary.Read(tee, endian, &version)
TxIDVersion(s, st) ==
    TxIDRead(s, st, "version", 0, ReadUint32(s, st.pos),
             TxIDNext(st, "input count", st.branch, <<>>))

\* inputCount, err := wire.ReadVarInt(r); if inputCount > 0 the count is
\* written to the hasher.
TxIDInputCount(s, st) ==
    LET r == ReadVarInt(s, st.pos)
    IN  TxIDRead(s, st, "input count", 0, r,
             IF r.val > 0
             THEN [TxIDNext(st, "input", "PlainWithInputs", WriteVarInt(r.val))
                       EXCEPT !.inputCount = r.val]
             ELSE TxIDNext(st, "output count", st.branch, <<>>))

\* One turn of an input loop.
TxIDInput(s, st) ==
    IF st.inputs >= st.inputCount THEN [st EXCEPT !.pc = "output count"]
    ELSE TxIDRead(s, st, "input", st.inputs + 1, TxInDeserialize(s, st.pos),
             [TxIDNext(st, IF st.branch = "Extended" THEN "spent output" ELSE "input",
                       st.branch, <<>>)
                 EXCEPT !.inputs = st.inputs + 1])

\* output.Deserialize(r) in the extended branch.
TxIDSpentOutput(s, st) ==
    TxIDRead(s, st, "spent output", st.inputs, TxOutDeserialize(s, st.pos),
             TxIDNext(st, "input", st.branch, <<>>))

\* The output count: after a zero input count it is read on r and, when it
\* is > 0, both counts are written to the hasher.
TxIDOutputCount(s, st) ==
    LET r == ReadVarInt(s, st.pos)
    IN  TxIDRead(s, st, "output count", 0, r,
             IF st.branch # "none"
             THEN [TxIDNext(st, "output", st.branch, <<>>) EXCEPT !.outputCount = r.val]
             ELSE IF r.val > 0
             THEN [TxIDNext(st, "output", "PlainZeroInputs",
                            WriteVarInt(st.inputCount) \o WriteVarInt(r.val))
                       EXCEPT !.outputCount = r.val]
             ELSE TxIDNext(st, "lock time", st.branch, <<>>))

\* One turn of an output loop.
TxIDOutput(s, st) ==
    IF st.outputs >= st.outputCount THEN [st EXCEPT !.pc = "lock time"]
    ELSE TxIDRead(s, st, "output", st.outputs + 1, TxOutDeserialize(s, st.pos),
             [TxIDNext(st, "output", st.branch, <<>>) EXCEPT !.outputs = st.outputs + 1])

\* TxIDLockTime writing only the lock time to the hasher.
TxIDLockTimeCountsNotHashed(s, st) ==
    LET r == ReadUint32(s, st.pos)
    IN  TxIDRead(s, st, "lock time", 0, r,
             IF st.branch # "none" THEN TxIDNext(st, "done", st.branch, <<>>)
             ELSE IF r.val # MarkerLockTime
             THEN TxIDNext(st, "done", "PlainEmpty", LittleEndianPut(r.val))
             ELSE TxIDNext(st, "actual input count", "Extended", <<>>))

\* The lock time: after two zero counts it is read on r; a value other than
\* MarkerLockTime is written to the hasher after the two counts.
TxIDLockTime(s, st) ==
    LET r == ReadUint32(s, st.pos)
    IN  TxIDRead(s, st, "lock time", 0, r,
             IF st.branch # "none" THEN TxIDNext(st, "done", st.branch, <<>>)
             ELSE IF r.val # MarkerLockTime
             THEN TxIDNext(st, "done", "PlainEmpty",
                           WriteVarInt(st.inputCount) \o WriteVarInt(st.outputCount)
                              \o LittleEndianPut(r.val))
             ELSE TxIDNext(st, "actual input count", "Extended", <<>>))

\* The actual input count read on tee and also written to the hasher, as the
\* count of the plain branch is.
TxIDActualInputCountWrittenAgain(s, st) ==
    LET r == ReadVarInt(s, st.pos)
    IN  TxIDRead(s, st, "actual input count", 0, r,
             [TxIDNext(st, "input", st.branch, WriteVarInt(r.val))
                 EXCEPT !.inputCount = r.val])

\* icount, err := wire.ReadVarInt(tee)
TxIDActualInputCount(s, st) ==
    LET r == ReadVarInt(s, st.pos)
    IN  TxIDRead(s, st, "actual input count", 0, r,
             [TxIDNext(st, "input", st.branch, <<>>) EXCEPT !.inputCount = r.val])

\* The next read of a DeserializeTxID call.
TxIDStep(s, st) ==
    CASE st.pc = "version" -> TxIDVersion(s, st)
      [] st.pc = "input count" -> TxIDInputCount(s, st)
      [] st.pc = "input" -> TxIDInput(s, st)
      [] st.pc = "spent output" -> TxIDSpentOutput(s, st)
      [] st.pc = "output count" -> TxIDOutputCount(s, st)
      [] st.pc = "output" -> TxIDOutput(s, st)
      [] st.pc = "lock time" -> TxIDLockTime(s, st)
      [] st.pc = "actual input count" -> TxIDActualInputCount(s, st)

RECURSIVE TxIDRun(_, _)
TxIDRun(s, st) ==
    IF st.pc \in {"done", "failed"} THEN st ELSE TxIDRun(s, TxIDStep(s, st))

\* What DeserializeTxID returns: the double hash of what the hasher was fed,
\* or (bitcoin.Hash32{}, err).
TxIDReturn(st) ==
    [err |-> st.err, branch |-> st.branch, pos |-> st.pos, reads |-> st.reads,
     hashed |-> st.hashed,
     hash |-> IF st.pc = "done" THEN DoubleHash(st.hashed) ELSE ZeroHash]

\* DeserializeTxID(r) on the stream s with the cursor at p.
DeserializeTxID(s, p) == TxIDReturn(TxIDRun(s, TxIDStart(p)))

\* ------------------------------------------------------------------ inputs
\* A coinbase input: the previous output hash is all zero.
CoinbaseIn ==
    [Hash |-> Repeat(0, 32), Index |-> <<255, 255, 255, 255>>,
     UnlockingScript |-> <<>>, Sequence |-> <<255, 255, 255, 255>>]

In1 ==
    [Hash |-> Repeat(17, 32), Index |-> <<0, 0, 0, 0>>,
     UnlockingScript |-> <<>>, Sequence |-> <<255, 255, 255, 255>>]

In2 ==
    [Hash |-> Repeat(34, 32), Index |-> <<0, 0, 0, 1>>,
     UnlockingScript |-> <<81>>, Sequence |-> <<255, 255, 255, 254>>]

\* The output of value 10000 spent by the input of the tests.
SpentA == [Value |-> <<0, 0, 0, 0, 0, 0, 39, 16>>, LockingScript |-> <<118, 169>>]

SpentB == [Value |-> <<0, 0, 0, 0, 0, 1, 0, 0>>, LockingScript |-> <<82>>]

\* The output of value 9990 of the tests.
Out1 == [Value |-> <<0, 0, 0, 0, 0, 0, 39, 6>>, LockingScript |-> <<81>>]

Out2 == [Value |-> <<0, 0, 0, 0, 0, 0, 0, 1>>, LockingScript |-> <<>>]

\* An input together with what the resolver answers for it.
InputChoices ==
    { [in |-> CoinbaseIn, spent |-> Resolved(SpentB)],
      [in |-> In1, spent |-> Resolved(SpentA)],
      [in |-> In2, spent |-> Resolved(SpentB)],
      [in |-> In2, spent |-> Missing] }

OutputChoices == {Out1, Out2}

\* 12345 and the marker value 0xEF000000.
LockTimes == { <<0, 0, 48, 57>>, MarkerLockTime }

\* The lock times of a transaction with the given inputs and outputs: the
\* transaction without inputs and outputs also has the lock time 0.
LockTimesOf(io) ==
    IF io[1] = <<>> /\ io[2] = <<>> THEN LockTimes \cup { Repeat(0, 4) } ELSE LockTimes

Versions == { <<0, 0, 0, 1>> }

\* The sequences of inputs and of outputs with at most n records in all.
RecordsUpTo(I, O, n) ==
    UNION { [1..i -> I] \X [1..o -> O] : <<i, o>> \in { c \in (0..n) \X (0..n) : c[1] + c[2] <= n } }

\* The transactions with outputs (expanded_tx.TransactionWithOutputs) handed
\* to Serialize, with at most n input and output records.
Txs(n) ==
    UNION { { [Version |-> v,
               TxIn |-> [k \in 1..Len(io[1]) |-> io[1][k].in],
               Spent |-> [k \in 1..Len(io[1]) |-> io[1][k].spent],
               TxOut |-> io[2],
               LockTime |-> lt] : v \in Versions, lt \in LockTimesOf(io) } :
            io \in RecordsUpTo(InputChoices, OutputChoices, n) }

\* The plain transactions (wire.MsgTx) serialized by MsgTx.Serialize.
MsgTxs(n) ==
    UNION { { [Version |-> v, TxIn |-> io[1], TxOut |-> io[2], LockTime |-> lt] :
              v \in Versions, lt \in LockTimesOf(io) } :
            io \in RecordsUpTo({CoinbaseIn, In1, In2}, OutputChoices, n) }

\* Byte streams that no serializer of the repository writes: the marker
\* followed by an actual input count of zero, counts that are not in
\* canonical form, and counts far beyond the bytes that follow.
RawStreams ==
    { <<1, 0, 0, 0>> \o Marker \o <<0>> \o <<1>> \o TxOutSerialize(Out1) \o <<57, 48, 0, 0>>,
      <<1, 0, 0, 0>> \o Marker \o <<0, 0>> \o <<0, 0, 0, 239>>,
      <<1, 0, 0, 0>> \o <<253, 1, 0>> \o TxInSerialize(In1) \o <<0>> \o <<0, 0, 0, 0>>,
      <<1, 0, 0, 0>> \o <<0>> \o <<253, 1, 0>> \o TxOutSerialize(Out1) \o <<0, 0, 0, 0>>,
      <<1, 0, 0, 0>> \o <<253, 253, 0>> \o TxInSerialize(In1),
      <<1, 0, 0, 0>> \o <<255>> \o Repeat(255, 8) \o TxInSerialize(In1),
      <<1, 0, 0, 0>> \o <<0>> \o <<255>> \o Repeat(255, 8) \o TxOutSerialize(Out1) }

\* ------------------------------------------------------------------- state
VARIABLES
    buf,     \* the bytes.Buffer the serializers write to and the readers read
    writes,  \* the serializer calls made on buf, in order
    detxs,   \* the results of the Deserialize calls made on one reader of buf
    txid,    \* the result of DeserializeTxID on a reader of buf, if called
    cut,     \* the number of bytes at the end of buf that the readers do not get
    calls,   \* the invocations of the codec running at the same time, each
             \* on a writer or reader of its own
    pkg,     \* the package-level variables of package tef
    client,  \* the HTTPClient: the revision of its code, url and callBackURL
    call,    \* the last call made on the client or on JoinPath, with the
             \* requests it sent and what it returned (and for SubmitTxs the
             \* list of transactions it was given)
    txStatus,\* two TxStatus variables: s, the receiver of String and
             \* MarshalText, and t, the receiver of SetString and UnmarshalText
    text     \* the last call made on a TxStatus variable and what it returned

vars == <<buf, writes, detxs, txid, cut, calls, pkg, client, call, txStatus, text>>

concurrentVars == <<calls, pkg>>

clientVars == <<client, call>>

statusVars == <<txStatus, text>>

\* No client was made and no call on it.
NoClient == [revision |-> "", url |-> <<>>, authToken |-> <<>>, callBackURL |-> <<>>]

NoCall == [fn |-> ""]

\* var ( Marker = []byte{...}; endian = binary.LittleEndian )
PackageVars == [Marker |-> Marker, endian |-> "LittleEndian"]

Init ==
    /\ buf = <<>>
    /\ writes = <<>>
    /\ detxs = <<>>
    /\ txid = <<>>
    /\ cut = 0
    /\ calls = <<>>
    /\ pkg = PackageVars
    /\ client = NoClient
    /\ call = NoCall
    /\ txStatus = [s |-> 0, t |-> 0]
    /\ text = NoCall

\* The bytes that the readers are made on.
Stream == SubSeq(buf, 1, Len(buf) - cut)

\* The input and output records of the transactions written so far.
RECURSIVE Records(_)
Records(ws) ==
    IF ws = <<>> THEN 0
    ELSE Len(Head(ws).tx.TxIn) + Len(Head(ws).tx.TxOut) + Records(Tail(ws))

\* The buffer is still being written: no reader was made, and no serializer
\* call failed (SubmitTxs returns at the first error).
Writing ==
    /\ detxs = <<>>
    /\ txid = <<>>
    /\ cut = 0
    /\ Len(writes) < MaxTxs
    /\ \A i \in 1..Len(writes) : writes[i].err = ""

Write(op, tx, chunks, err) ==
    /\ buf' = buf \o ChunkBytes(chunks)
    /\ writes' = Append(writes,
                    [op |-> op, tx |-> tx, from |-> Len(buf),
                     to |-> Len(buf) + Len(ChunkBytes(chunks)),
                     chunks |-> chunks, err |-> err])
    /\ UNCHANGED <<detxs, txid, cut, concurrentVars, clientVars, statusVars>>

\* tef.Serialize(buf, tx) on one buffer, once as in SubmitTx and the tests
\* or for each transaction in turn as in SubmitTxs.
DoSerialize ==
    /\ Writing
    /\ \E tx \in Txs(MaxRecords - Records(writes)) :
          LET res == Serialize(tx)
          IN  Write("Serialize", tx, res.chunks, res.err)

\* msgTx.Serialize(buf) on a new buffer: the plain format, as in the tests.
DoMsgTxSerialize ==
    /\ Writing
    /\ writes = <<>>
    /\ \E tx \in MsgTxs(MaxRecords) :
          Write("MsgTx.Serialize", tx, << Chunk("plain", 0, MsgTxSerialize(tx)) >>, "")

\* Bytes from elsewhere (the hex argument of the submit command).
DoWriteRaw ==
    /\ Writing
    /\ writes = <<>>
    /\ \E b \in RawStreams :
          Write("raw", [TxIn |-> <<>>, TxOut |-> <<>>], << Chunk("raw", 0, b) >>, "")

\* The readers get only the start of the one transaction in the buffer: the
\* bytes decoded are not all of what a serializer wrote.
DoTruncate ==
    /\ Len(writes) = 1
    /\ detxs = <<>>
    /\ txid = <<>>
    /\ cut = 0
    /\ \E n \in 1..Len(buf) : cut' = n
    /\ UNCHANGED <<buf, writes, detxs, txid, concurrentVars, clientVars, statusVars>>

\* The cursor of the reader used by the Deserialize calls.
Cursor == IF detxs = <<>> THEN 0 ELSE detxs[Len(detxs)].pos

\* The loop of Submit goes on while no call failed and r.Len() # 0.
MoreToRead == detxs # <<>> /\ detxs[Len(detxs)].err = "" /\ Cursor < Len(Stream)

\* tef.Deserialize(r): the first call on a new reader of buf, and the
\* further calls of the loop of Submit.
DoDeserialize ==
    /\ detxs = <<>> \/ MoreToRead
    /\ txid = <<>>
    /\ detxs' = Append(detxs, Deserialize(Stream, Cursor))
    /\ UNCHANGED <<buf, writes, txid, cut, concurrentVars, clientVars, statusVars>>

\* tef.DeserializeTxID(bytes.NewReader(buf)), called as the tests call it:
\* on a new reader of the bytes, once they have been deserialized.
DoDeserializeTxID ==
    /\ detxs # <<>> /\ ~MoreToRead
    /\ txid = <<>>
    /\ txid' = << DeserializeTxID(Stream, 0) >>
    /\ UNCHANGED <<buf, writes, detxs, cut, concurrentVars, clientVars, statusVars>>

Next ==
    \/ DoSerialize
    \/ DoMsgTxSerialize
    \/ DoWriteRaw
    \/ DoTruncate
    \/ DoDeserialize
    \/ DoDeserializeTxID

Spec == Init /\ [][Next]_vars

\* -------------------------------------------------------- concurrent calls
\* Invocations of Serialize, Deserialize and DeserializeTxID that run at the
\* same time, each on a writer or reader of its own, one write or read at a
\* time.  The only state outside an invocation that its code refers to is
\* the package-level variables Marker and endian.
TxWithInput ==
    [Version |-> <<0, 0, 0, 1>>, TxIn |-> <<In1>>, Spent |-> << Resolved(SpentA) >>,
     TxOut |-> <<Out1>>, LockTime |-> <<0, 0, 48, 57>>]

TxWithoutInput ==
    [Version |-> <<0, 0, 0, 1>>, TxIn |-> <<>>, Spent |-> <<>>,
     TxOut |-> <<Out1>>, LockTime |-> <<0, 0, 48, 57>>]

\* An invocation that has not made its first write or read.
Call(fn, tx, s) ==
    [fn |-> fn, tx |-> tx, s |-> s, out |-> <<>>,
     st |-> IF fn = "Serialize" THEN [pc |-> "write"]
            ELSE IF fn = "Deserialize" THEN DeserializeStart(0)
            ELSE TxIDStart(0)]

ConcurrentCalls ==
    { Call("Serialize", TxWithInput, <<>>),
      Call("Serialize", TxWithoutInput, <<>>),
      Call("Deserialize", TxWithoutInput, ChunkBytes(Serialize(TxWithInput).chunks)),
      Call("DeserializeTxID", TxWithoutInput, ChunkBytes(Serialize(TxWithInput).chunks)),
      Call("DeserializeTxID", TxWithoutInput, MsgTxSerialize(GetMsgTx(TxWithInput))) }

Finished(c) == c.st.pc \in {"done", "failed", "panic"}

\* The next write of a Serialize invocation: w.Write(Marker) writes the
\* bytes that the package-level variable holds at that time.
SerializeStep(c, p) ==
    LET chunks == Serialize(c.tx).chunks
        chunk == chunks[Len(c.out) + 1]
    IN  [c EXCEPT !.out = Append(@, IF chunk.kind = "marker"
                                    THEN Chunk("marker", 0, p.Marker) ELSE chunk),
                  !.st = [pc |-> IF Len(c.out) + 1 = Len(chunks) THEN "done"
                                 ELSE "write"]]

\* The next write or read of an invocation.
CallStep(c, p) ==
    CASE c.fn = "Serialize" -> SerializeStep(c, p)
      [] c.fn = "Deserialize" -> [c EXCEPT !.st = DeserializeStep(c.s, c.st)]
      [] c.fn = "DeserializeTxID" -> [c EXCEPT !.st = TxIDStep(c.s, c.st)]

\* PackageAfter with Serialize appending to Marker.
PackageAfterAppend(c, p) ==
    IF c.fn = "Serialize" THEN [p EXCEPT !.Marker = Append(@, 0)] ELSE p

\* The package-level variables after a write or read of an invocation: no
\* statement of the package assigns Marker, an element of it, or endian.
PackageAfter(c, p) == p

StartCall ==
    /\ Len(calls) < MaxCalls
    /\ \E c \in ConcurrentCalls : calls' = Append(calls, c)
    /\ UNCHANGED <<buf, writes, detxs, txid, cut, pkg, clientVars, statusVars>>

StepCall ==
    /\ \E i \in 1..Len(calls) :
          /\ ~Finished(calls[i])
          /\ calls' = [calls EXCEPT ![i] = CallStep(calls[i], pkg)]
          /\ pkg' = PackageAfter(calls[i], pkg)
    /\ UNCHANGED <<buf, writes, detxs, txid, cut, clientVars, statusVars>>

NextConcurrent ==
    \/ StartCall
    \/ StepCall

SpecConcurrent == Init /\ [][NextConcurrent]_vars

\* ---------------------------------------------------------------- URLs
\* A URL or a path is the sequence of its pieces: each piece is "/" or a
\* run of characters without '/', so "https://miner.test/arc" is
\* <<"https:", "/", "/", "miner.test", "/", "arc">>.
Schemes == {"https:", "http:"}

PathPolicy == <<"v1", "/", "policy">>

\* fmt.Sprintf(PathTxStatus, txid)
PathTxStatus(id) == <<"v1", "/", "tx", "/", id>>

PathSubmitTx == <<"v1", "/", "tx">>

PathSubmitTxs == <<"v1", "/", "txs">>

\* path.Clean, the part that acts on paths without "." and ".." elements:
\* runs of '/' become one '/'.
RECURSIVE Collapse(_)
Collapse(p) ==
    IF Len(p) < 2 THEN p
    ELSE IF p[1] = "/" /\ p[2] = "/" THEN Collapse(Tail(p))
    ELSE <<p[1]>> \o Collapse(Tail(p))

\* path.Clean: also drops the trailing '/' of a path that is not the root,
\* and turns the empty path into ".".
PathClean(p) ==
    LET c == Collapse(p)
    IN  IF c = <<>> THEN <<".">>
        ELSE IF Len(c) > 1 /\ c[Len(c)] = "/" THEN SubSeq(c, 1, Len(c) - 1)
        ELSE c

\* path.Join(a, b): the non-empty elements joined by '/' and cleaned.
PathJoin(a, b) ==
    IF a = <<>> /\ b = <<>> THEN <<>>
    ELSE IF a = <<>> THEN PathClean(b)
    ELSE IF b = <<>> THEN PathClean(a)
    ELSE PathClean(a \o <<"/">> \o b)

\* url.Parse, for URLs without user, query and fragment: the scheme, the
\* host after "//" and the path.
UrlParse(u) ==
    IF u # <<>> /\ u[1] \in Schemes
    THEN IF Len(u) >= 3 /\ u[2] = "/" /\ u[3] = "/"
         THEN IF Len(u) >= 4 /\ u[4] # "/"
              THEN [Scheme |-> u[1], Host |-> u[4], Path |-> SubSeq(u, 5, Len(u))]
              ELSE [Scheme |-> u[1], Host |-> "", Path |-> SubSeq(u, 4, Len(u))]
         ELSE [Scheme |-> u[1], Host |-> "", Path |-> Tail(u)]
    ELSE [Scheme |-> "", Host |-> "", Path |-> u]

\* URL.String()
UrlString(u) ==
    (IF u.Scheme # "" THEN <<u.Scheme>> ELSE <<>>)
    \o (IF (u.Scheme # "" \/ u.Host # "") /\ (u.Host # "" \/ u.Path # <<>>)
        THEN <<"/", "/">> ELSE <<>>)
    \o (IF u.Host # "" THEN <<u.Host>> ELSE <<>>)
    \o (IF u.Path # <<>> /\ u.Path[1] # "/" /\ u.Host # "" THEN <<"/">> ELSE <<>>)
    \o u.Path

\* URL.JoinPath(elem): the path of u joined with elem by path.Join, a
\* trailing '/' of elem kept.
UrlPathJoin(path, elem) ==
    LET p == IF path = <<>> \/ path[1] # "/"
             THEN Tail(PathJoin(<<"/">> \o path, elem))
             ELSE PathJoin(path, elem)
    IN  IF elem # <<>> /\ elem[Len(elem)] = "/" /\ (p = <<>> \/ p[Len(p)] # "/")
        THEN p \o <<"/">>
        ELSE p

\* url.JoinPath(base, elem)
UrlJoinPath(base, elem) ==
    LET u == UrlParse(base)
    IN  UrlString([u EXCEPT !.Path = UrlPathJoin(u.Path, elem)])

\* The URL a call of the client requests: url.JoinPath in arc.go,
\* path.Join in the client of part_001.
RequestURL(c, elem) ==
    IF c.revision = "arc.go" THEN UrlJoinPath(c.url, elem)
    ELSE PathJoin(c.url, elem)

\* ---------------------------------------------------------------- errors
\* An error value: type is its dynamic type, kind identifies its cause
\* (what errors.Cause returns), wraps the messages of errors.Wrap from the
\* outermost; Status, Message and Description are the fields of an
\* HTTPError cause.
NoError ==
    [type |-> "nil", kind |-> "nil", Status |-> 0, Message |-> "",
     Description |-> "", wraps |-> <<>>]

HTTPError(status, message, description) ==
    [type |-> "HTTPError", kind |-> "HTTPError", Status |-> status,
     Message |-> message, Description |-> description, wraps |-> <<>>]

\* An error made by errors.New or by another package.
NewError(kind) ==
    [type |-> "error", kind |-> kind, Status |-> 0, Message |-> "",
     Description |-> "", wraps |-> <<>>]

ErrTimeout == NewError("Timeout")

ErrInvalidTxStatus == NewError("Invalid Tx Status")

\* errors.Wrap(err, message): a new error value around err.
Wrap(err, message) ==
    [err EXCEPT !.type = "withStack", !.wraps = <<message>> \o @]

\* errors.Cause(err)
Cause(err) ==
    [err EXCEPT !.type = IF err.kind \in {"HTTPError", "nil"} THEN err.kind ELSE "error",
                !.wraps = <<>>]

httpStatusDescriptions ==
    [s \in {400, 401, 409, 422, 460, 461, 462, 463, 464, 465} |->
        CASE s = 400 -> "bad request"
          [] s = 401 -> "unauthorized"
          [] s = 409 -> "generic"
          [] s = 422 -> "malformed request"
          [] s = 460 -> "not extended format"
          [] s = 461 -> "malformed transaction"
          [] s = 462 -> "invalid inputs"
          [] s = 463 -> "malformed transaction"
          [] s = 464 -> "invalid outputs"
          [] s = 465 -> "fee too low"]

\* IsInvalidTxError(err): a type assertion on err itself, then the status.
IsInvalidTxError(err) ==
    IF err.type # "HTTPError" THEN FALSE
    ELSE err.Status \in {461, 462, 463, 464, 465}

\* The TxStatus constants.
TxStatusUnknown == 0

TxStatusQueued == 1

TxStatusReceived == 2

TxStatusStored == 3

TxStatusAnnounced == 4

TxStatusRequested == 5

TxStatusSent == 6

TxStatusAccepted == 7

TxStatusSeen == 8

TxStatusMined == 9

TxStatusOrphaned == 10

TxStatusConfirmed == 108

TxStatusRejected == 109

\* ----------------------------------------------------------- HTTP client
\* What the network and the service do with a request: a response with a
\* status and a body (JSON, other text, or a body whose read fails), a
\* transport error, or the expiry of the deadline.
Statuses == {200, 400, 404, 460, 461, 462, 463, 464, 465, 504}

Answers ==
    [kind : {"response"}, status : Statuses, body : {"json", "text"}]
    \cup [kind : {"response"}, status : {200, 400, 504}, body : {"read error"}]
    \cup { [kind |-> "error", status |-> 0, body |-> ""],
           [kind |-> "deadline", status |-> 0, body |-> ""] }

\* c.httpClient.Do(httpRequest): a request whose URL has no host is not
\* sent ("http: no Host in request URL").
Do(url, answer) ==
    IF UrlParse(url).Host = ""
    THEN [kind |-> "error", status |-> 0, body |-> ""]
    ELSE answer

\* --- http.Header: for each key, canonical as textproto writes it, the
\* values added in order.  A value is the sequence of its pieces, as a URL is.
CanonicalMIMEHeaderKey(key) ==
    CASE key = "X-CallbackUrl" -> "X-Callbackurl"
      [] key = "X-CallbackToken" -> "X-Callbacktoken"
      [] key = "X-FullStatusUpdates" -> "X-Fullstatusupdates"
      [] key = "X-WaitForStatus" -> "X-Waitforstatus"
      [] OTHER -> key

HeaderKeyCallbackURL == "X-CallbackUrl"

HeaderKeyCallbackToken == "X-CallbackToken"

HeaderKeyFullStatusUpdates == "X-FullStatusUpdates"

HeaderKeyWaitForStatus == "X-WaitForStatus"

\* make(http.Header)
NoHeader == [k \in {} |-> <<>>]

\* header.Add(key, value)
HeaderAdd(h, key, value) ==
    LET k == CanonicalMIMEHeaderKey(key)
    IN  [x \in DOMAIN h \cup {k} |->
            IF x # k THEN h[x]
            ELSE IF k \in DOMAIN h THEN Append(h[k], value) ELSE <<value>>]

\* header.Set(key, value)
HeaderSet(h, key, value) ==
    LET k == CanonicalMIMEHeaderKey(key)
    IN  [x \in DOMAIN h \cup {k} |-> IF x # k THEN h[x] ELSE <<value>>]

\* fmt.Sprintf("%d", n) for n < 10
Sprintf(n) == << <<"0", "1", "2", "3", "4", "5", "6", "7", "8", "9">>[n + 1] >>

\* peer_channels.ParseChannel(url): a peer channel URL has the path
\* /api/v1/channel/<id> and may end in the query ?token=<token>, given here
\* as the two pieces "?token=" and the token.
ParseChannel(u) ==
    LET q == {i \in 1..Len(u) : u[i] = "?token="}
        end == IF q = {} THEN Len(u) ELSE (CHOOSE i \in q : TRUE) - 1
        isChannel == \E i \in 1..(end - 7) :
                        SubSeq(u, i, i + 6) = <<"/", "api", "/", "v1", "/", "channel", "/">>
    IN  IF isChannel
        THEN [err |-> "", URL |-> SubSeq(u, 1, end),
              Token |-> IF q # {} /\ end + 2 <= Len(u) THEN u[end + 2] ELSE ""]
        ELSE [err |-> "not a peer channel", URL |-> <<>>, Token |-> ""]

\* Channel.MaskedString(): the URL of the channel without its token.
MaskedString(channel) == channel.URL

\* The callback headers with X-CallbackUrl always the callback URL as given,
\* as the client of part_001 sends it.
CallbackHeadersUnmasked(c, header) ==
    IF c.callBackURL = <<>> THEN header
    ELSE HeaderAdd(HeaderAdd(HeaderAdd(header, HeaderKeyCallbackURL, c.callBackURL),
                             HeaderKeyFullStatusUpdates, <<"true">>),
                   HeaderKeyWaitForStatus, Sprintf(TxStatusReceived))

\* The callback headers of SubmitTxBytes and SubmitTxsBytes; the client of
\* part_001 does not parse the callback URL.
CallbackHeaders(c, header) ==
    IF c.callBackURL = <<>> THEN header
    ELSE LET peerChannel == ParseChannel(c.callBackURL)
             h == IF c.revision = "arc.go" /\ peerChannel.err = "" /\ peerChannel.Token # ""
                  THEN HeaderAdd(HeaderAdd(header, HeaderKeyCallbackURL,
                                           MaskedString(peerChannel)),
                                 HeaderKeyCallbackToken, <<peerChannel.Token>>)
                  ELSE HeaderAdd(header, HeaderKeyCallbackURL, c.callBackURL)
         IN  HeaderAdd(HeaderAdd(h, HeaderKeyFullStatusUpdates, <<"true">>),
                       HeaderKeyWaitForStatus, Sprintf(TxStatusReceived))

\* if authToken := c.authToken.Load().(string); len(authToken) > 0
AuthorizationHeader(c, header) ==
    IF c.authToken # <<>> THEN HeaderAdd(header, "Authorization", c.authToken)
    ELSE header

\* b, rerr := ioutil.ReadAll(httpResponse.Body); string(b) where rerr == nil,
\* and the empty Message otherwise.
ReadAll(body) == IF body = "read error" THEN "" ELSE body

\* get and post with a 504 response treated as every other status.
HTTPResultNoGatewayTimeout(c, method, a) ==
    IF a.kind = "deadline" THEN [err |-> Wrap(ErrTimeout, method), response |-> "zero"]
    ELSE IF a.kind = "error"
    THEN [err |-> Wrap(NewError("transport"), method), response |-> "zero"]
    ELSE IF a.status < 200 \/ a.status > 299
    THEN [err |-> HTTPError(a.status, ReadAll(a.body),
                        IF c.revision = "arc.go" /\ a.status \in DOMAIN httpStatusDescriptions
                        THEN httpStatusDescriptions[a.status] ELSE ""),
          response |-> "zero"]
    ELSE IF a.body = "read error" THEN [err |-> NoError, response |-> "zero"]
    ELSE IF a.body # "json"
    THEN [err |-> Wrap(NewError("json"), "unmarshal json"), response |-> "zero"]
    ELSE [err |-> NoError, response |-> a.body]

\* What get and post return for what Do returned, and the caller's response
\* object afterwards: "zero" as the caller made it, or the body unmarshalled
\* into it.  A body of a 2xx response that cannot be read is skipped.
HTTPResult(c, method, a) ==
    IF a.kind = "deadline" THEN [err |-> Wrap(ErrTimeout, method), response |-> "zero"]
    ELSE IF a.kind = "error"
    THEN [err |-> Wrap(NewError("transport"), method), response |-> "zero"]
    ELSE IF a.status < 200 \/ a.status > 299
    THEN [err |-> IF a.status = 504 THEN Wrap(ErrTimeout, "http post")
                  ELSE HTTPError(a.status, ReadAll(a.body),
                        IF c.revision = "arc.go" /\ a.status \in DOMAIN httpStatusDescriptions
                        THEN httpStatusDescriptions[a.status] ELSE ""),
          response |-> "zero"]
    ELSE IF a.body = "read error" THEN [err |-> NoError, response |-> "zero"]
    ELSE IF a.body # "json"
    THEN [err |-> Wrap(NewError("json"), "unmarshal json"), response |-> "zero"]
    ELSE [err |-> NoError, response |-> a.body]

\* c.get(url, header, response)
get(c, url, header, answer) ==
    LET a == Do(url, answer)
        res == HTTPResult(c, "http get", a)
    IN  [sent |-> << [method |-> "GET", url |-> url,
                      header |-> AuthorizationHeader(c, header), body |-> <<>>] >>,
         answer |-> a, err |-> res.err, response |-> res.response]

\* c.post(url, header, request, response), request a []byte
post(c, url, header, request, answer) ==
    LET a == Do(url, answer)
        res == HTTPResult(c, "http post", a)
    IN  [sent |-> << [method |-> "POST", url |-> url,
                      header |-> AuthorizationHeader(c,
                                    HeaderAdd(header, "Content-Type",
                                              <<"application", "/", "octet-stream">>)),
                      body |-> request] >>,
         answer |-> a, err |-> res.err, response |-> res.response]

\* What a method of the client returns after get or post returned r: the
\* response, or nil and the error wrapped.
Returned(fn, elem, r, message) ==
    [fn |-> fn, elem |-> elem, sent |-> r.sent, answer |-> r.answer,
     inner |-> [err |-> r.err, response |-> r.response],
     err |-> IF r.err.type = "nil" THEN NoError ELSE Wrap(r.err, message),
     response |-> IF r.err.type = "nil" THEN r.response ELSE "nil"]

\* What SubmitTx and SubmitTxs return when Serialize fails: no request.
NotSent(fn, elem, err, message) ==
    [fn |-> fn, elem |-> elem, sent |-> <<>>,
     answer |-> [kind |-> "", status |-> 0, body |-> ""],
     inner |-> [err |-> NoError, response |-> "zero"],
     err |-> Wrap(err, message), response |-> "nil"]

GetPolicy(c, answer) ==
    Returned("GetPolicy", PathPolicy,
             get(c, RequestURL(c, PathPolicy), AuthorizationHeader(c, NoHeader), answer),
             "get")

GetTxStatus(c, id, answer) ==
    Returned("GetTxStatus", PathTxStatus(id),
             get(c, RequestURL(c, PathTxStatus(id)), NoHeader, answer), "get")

SubmitTxBytes(c, txBytes, answer) ==
    Returned("SubmitTxBytes", PathSubmitTx,
             post(c, RequestURL(c, PathSubmitTx),
                  HeaderSet(CallbackHeaders(c, NoHeader), "Content-Type",
                            <<"application", "/", "octet-stream">>),
                  txBytes, answer),
             "post")

SubmitTx(c, tx, answer) ==
    LET s == Serialize(tx)
    IN  IF s.err # ""
        THEN NotSent("SubmitTx", PathSubmitTx, NewError(s.err), "serialize")
        ELSE [SubmitTxBytes(c, ChunkBytes(s.chunks), answer) EXCEPT !.fn = "SubmitTx"]

SubmitTxsBytes(c, txsBytes, answer) ==
    Returned("SubmitTxsBytes", PathSubmitTxs,
             post(c, RequestURL(c, PathSubmitTxs), CallbackHeaders(c, NoHeader),
                  txsBytes, answer),
             "post")

\* The loop of SubmitTxs: every transaction serialized into one buffer, up
\* to the first one that fails.
RECURSIVE SerializeAll(_, _, _)
SerializeAll(txs, i, bytes) ==
    IF i > Len(txs) THEN [bytes |-> bytes, err |-> ""]
    ELSE LET s == Serialize(txs[i])
         IN  IF s.err # "" THEN [bytes |-> bytes \o ChunkBytes(s.chunks), err |-> s.err]
             ELSE SerializeAll(txs, i + 1, bytes \o ChunkBytes(s.chunks))

\* SubmitTxs posting the buffer whether or not Serialize failed.
SubmitTxsAfterFailure(c, txs, answer) ==
    LET s == SerializeAll(txs, 1, <<>>)
    IN  [SubmitTxsBytes(c, s.bytes, answer) EXCEPT !.fn = "SubmitTxs"]

\* c.SubmitTxs(ctx, txs)
SubmitTxs(c, txs, answer) ==
    LET s == SerializeAll(txs, 1, <<>>)
    IN  IF s.err # ""
        THEN NotSent("SubmitTxs", PathSubmitTxs, NewError(s.err), "serialize tx")
        ELSE [SubmitTxsBytes(c, s.bytes, answer) EXCEPT !.fn = "SubmitTxs"]

\* -------------------------------------------------- the client's callers
BaseURLs ==
    { <<"https:", "/", "/", "miner.test", "/", "arc">>,
      <<"https:", "/", "/", "miner.test", "/", "arc", "/">>,
      <<"https:", "/", "/", "miner.test">>,
      <<"http:", "/", "/", "miner.test", "/">> }

\* Callback URLs: none, a URL that is no peer channel, a peer channel
\* without a token and one with a token.
CallBackURLs ==
    { <<>>,
      <<"https:", "/", "/", "wallet.test", "/", "callback">>,
      <<"https:", "/", "/", "channels.test", "/", "api", "/", "v1", "/", "channel", "/", "c1">>,
      <<"https:", "/", "/", "channels.test", "/", "api", "/", "v1", "/", "channel", "/", "c1",
        "?token=", "t0k3n">> }

AuthTokens == { <<>>, <<"Bearer key">> }

\* The clients NewHTTPClient makes, of the two revisions of the client:
\* every base URL without callback, and one base URL with each callback URL
\* and with an authorization token.
Clients ==
    [revision : {"arc.go", "part_001"}, url : BaseURLs, authToken : {<<>>},
     callBackURL : {<<>>}]
    \cup [revision : {"arc.go", "part_001"},
          url : { <<"https:", "/", "/", "miner.test", "/", "arc">> },
          authToken : {<<>>}, callBackURL : CallBackURLs]
    \cup [revision : {"arc.go"}, url : { <<"https:", "/", "/", "miner.test", "/", "arc">> },
          authToken : AuthTokens, callBackURL : {<<>>}]

TxWithMissingOutput ==
    [Version |-> <<0, 0, 0, 1>>, TxIn |-> <<In2>>, Spent |-> << Missing >>,
     TxOut |-> <<Out1>>, LockTime |-> <<0, 0, 48, 57>>]

SubmittedTxs == {TxWithInput, TxWithoutInput, TxWithMissingOutput}

TxIDs == {"5e3014372338f079f005eedc85359e4d96b8440e7dbeb8c35c4182e0c19a1a12"}

\* The number of calls made on the client so far.
CallsMade == IF call = NoCall \/ call.fn = "NewClient" THEN 0 ELSE call.n

\* The record of a call that returned r, numbered.
Made(r) == [n |-> CallsMade + 1] @@ r

\* The caller goes on calling its client.
Calling == client # NoClient /\ CallsMade < MaxClientCalls

InitClient ==
    /\ buf = <<>>
    /\ writes = <<>>
    /\ detxs = <<>>
    /\ txid = <<>>
    /\ cut = 0
    /\ calls = <<>>
    /\ pkg = PackageVars
    /\ client \in Clients
    /\ call = NoCall
    /\ txStatus = [s |-> 0, t |-> 0]
    /\ text = NoCall

DoGetPolicy ==
    /\ Calling
    /\ \E answer \in Answers : call' = Made(GetPolicy(client, answer))
    /\ UNCHANGED <<buf, writes, detxs, txid, cut, concurrentVars, client, statusVars>>

DoGetTxStatus ==
    /\ Calling
    /\ \E id \in TxIDs, answer \in Answers : call' = Made(GetTxStatus(client, id, answer))
    /\ UNCHANGED <<buf, writes, detxs, txid, cut, concurrentVars, client, statusVars>>

DoSubmitTx ==
    /\ Calling
    /\ \E tx \in SubmittedTxs, answer \in Answers : call' = Made(SubmitTx(client, tx, answer))
    /\ UNCHANGED <<buf, writes, detxs, txid, cut, concurrentVars, client, statusVars>>

DoSubmitTxBytes ==
    /\ Calling
    /\ \E tx \in {TxWithInput, TxWithoutInput}, answer \in Answers :
          call' = Made(SubmitTxBytes(client, ChunkBytes(Serialize(tx).chunks), answer))
    /\ UNCHANGED <<buf, writes, detxs, txid, cut, concurrentVars, client, statusVars>>

DoSubmitTxs ==
    /\ Calling
    /\ \E n \in 0..2 : \E txs \in [1..n -> SubmittedTxs], answer \in Answers :
          call' = Made([txs |-> txs] @@ SubmitTxs(client, txs, answer))
    /\ UNCHANGED <<buf, writes, detxs, txid, cut, concurrentVars, client, statusVars>>

DoSubmitTxsBytes ==
    /\ Calling
    /\ \E tx \in {TxWithInput, TxWithoutInput}, answer \in Answers :
          call' = Made(SubmitTxsBytes(client, ChunkBytes(Serialize(tx).chunks)
                                              \o ChunkBytes(Serialize(TxWithInput).chunks),
                                      answer))
    /\ UNCHANGED <<buf, writes, detxs, txid, cut, concurrentVars, client, statusVars>>

NextClient ==
    \/ DoGetPolicy
    \/ DoGetTxStatus
    \/ DoSubmitTx
    \/ DoSubmitTxBytes
    \/ DoSubmitTxs
    \/ DoSubmitTxsBytes

SpecClient == InitClient /\ [][NextClient]_vars

\* ---------------------------------------------------------------- factory
\* strings.HasPrefix on sequences of pieces; the prefixes used end in '/',
\* so a prefix of the characters is a prefix of the pieces.
HasPrefix(u, prefix) ==
    Len(u) >= Len(prefix) /\ SubSeq(u, 1, Len(prefix)) = prefix

\* NewHTTPClient(url, authToken, callBackURL, config)
NewHTTPClient(url, authToken, callBackURL) ==
    [revision |-> "arc.go", url |-> url, authToken |-> authToken,
     callBackURL |-> callBackURL]

\* NewClient accepting http:// URLs as well.
NewClientAnyHTTP(url, authToken, callBackURL) ==
    IF HasPrefix(url, <<"https:", "/", "/">>) \/ HasPrefix(url, <<"http:", "/", "/">>)
    THEN [client |-> NewHTTPClient(url, authToken, callBackURL), err |-> NoError]
    ELSE [client |-> NoClient, err |-> NewError("Unsupported URL protocol")]

\* func (f *Factory) NewClient(url, authToken, callBackURL string) (Client, error);
\* NoClient stands for the nil Client.
NewClient(url, authToken, callBackURL) ==
    IF HasPrefix(url, <<"https:", "/", "/">>) /\ ~HasPrefix(url, <<"http:", "/", "/">>)
    THEN [client |-> NewHTTPClient(url, authToken, callBackURL), err |-> NoError]
    ELSE [client |-> NoClient, err |-> NewError("Unsupported URL protocol")]

\* The URLs handed to the factory.
FactoryURLs ==
    { <<>>,
      <<"https:", "/", "/", "miner.test", "/", "arc">>,
      <<"https:", "/", "/", "miner.test">>,
      <<"https:", "/", "/">>,
      <<"http:", "/", "/", "miner.test", "/", "arc">>,
      <<"http:", "/", "/", "https:", "/", "/", "miner.test">>,
      <<"https:", "/", "miner.test">>,
      <<"https:miner.test">>,
      <<"HTTPS:", "/", "/", "miner.test">>,
      <<" https:", "/", "/", "miner.test">>,
      <<"ftp:", "/", "/", "miner.test">>,
      <<"miner.test", "/", "arc">> }

InitFactory ==
    /\ buf = <<>>
    /\ writes = <<>>
    /\ detxs = <<>>
    /\ txid = <<>>
    /\ cut = 0
    /\ calls = <<>>
    /\ pkg = PackageVars
    /\ client = NoClient
    /\ call = NoCall
    /\ txStatus = [s |-> 0, t |-> 0]
    /\ text = NoCall

\* factory.NewClient(url, authToken, callBackURL), before the caller calls
\* the client it got.
DoNewClient ==
    /\ CallsMade = 0
    /\ \E url \in FactoryURLs, authToken \in AuthTokens, callBackURL \in CallBackURLs :
          LET r == NewClient(url, authToken, callBackURL)
          IN  /\ client' = r.client
              /\ call' = [fn |-> "NewClient", url |-> url, authToken |-> authToken,
                          callBackURL |-> callBackURL, err |-> r.err]
    /\ UNCHANGED <<buf, writes, detxs, txid, cut, concurrentVars, statusVars>>

NextFactory ==
    \/ DoNewClient
    \/ DoGetPolicy
    \/ DoGetTxStatus

SpecFactory == InitFactory /\ [][NextFactory]_vars

\* ---------------------------------------------------------------- TxStatus
\* TxStatus.String with the name of TxStatusSeen for TxStatusOrphaned.
StringOrphanedAsSeen(s) ==
    CASE s = TxStatusUnknown -> "UNKNOWN"
      [] s = TxStatusQueued -> "QUEUED"
      [] s = TxStatusReceived -> "RECEIVED"
      [] s = TxStatusStored -> "STORED"
      [] s = TxStatusAnnounced -> "ANNOUNCED_TO_NETWORK"
      [] s = TxStatusRequested -> "REQUESTED_BY_NETWORK"
      [] s = TxStatusSent -> "SENT_TO_NETWORK"
      [] s = TxStatusAccepted -> "ACCEPTED_BY_NETWORK"
      [] s = TxStatusSeen -> "SEEN_ON_NETWORK"
      [] s = TxStatusMined -> "MINED"
      [] s = TxStatusConfirmed -> "CONFIRMED"
      [] s = TxStatusRejected -> "REJECTED"
      [] s = TxStatusOrphaned -> "SEEN_ON_NETWORK"
      [] OTHER -> ""

\* func (s TxStatus) String() string
String(s) ==
    CASE s = TxStatusUnknown -> "UNKNOWN"
      [] s = TxStatusQueued -> "QUEUED"
      [] s = TxStatusReceived -> "RECEIVED"
      [] s = TxStatusStored -> "STORED"
      [] s = TxStatusAnnounced -> "ANNOUNCED_TO_NETWORK"
      [] s = TxStatusRequested -> "REQUESTED_BY_NETWORK"
      [] s = TxStatusSent -> "SENT_TO_NETWORK"
      [] s = TxStatusAccepted -> "ACCEPTED_BY_NETWORK"
      [] s = TxStatusSeen -> "SEEN_ON_NETWORK"
      [] s = TxStatusMined -> "MINED"
      [] s = TxStatusConfirmed -> "CONFIRMED"
      [] s = TxStatusRejected -> "REJECTED"
      [] s = TxStatusOrphaned -> "SEEN_IN_ORPHAN_MEMPOOL"
      [] OTHER -> ""

\* The value the switch of SetString assigns for a name, -1 in the default
\* case.
SetStringCase(v) ==
    CASE v = "UNKNOWN" -> TxStatusUnknown
      [] v = "QUEUED" -> TxStatusQueued
      [] v = "RECEIVED" -> TxStatusReceived
      [] v = "STORED" -> TxStatusStored
      [] v = "ANNOUNCED_TO_NETWORK" -> TxStatusAnnounced
      [] v = "REQUESTED_BY_NETWORK" -> TxStatusRequested
      [] v = "SENT_TO_NETWORK" -> TxStatusSent
      [] v = "ACCEPTED_BY_NETWORK" -> TxStatusAccepted
      [] v = "SEEN_ON_NETWORK" -> TxStatusSeen
      [] v = "MINED" -> TxStatusMined
      [] v = "CONFIRMED" -> TxStatusConfirmed
      [] v = "REJECTED" -> TxStatusRejected
      [] v = "SEEN_IN_ORPHAN_MEMPOOL" -> TxStatusOrphaned
      [] OTHER -> -1

\* SetString leaving the receiver as it was in the default case.
SetStringKeepsReceiver(s, v) ==
    IF SetStringCase(v) # -1 THEN [s |-> SetStringCase(v), err |-> NoError]
    ELSE [s |-> s, err |-> Wrap(ErrInvalidTxStatus, v)]

\* func (s *TxStatus) SetString(v string) error, on a receiver holding s:
\* the value of the receiver afterwards and the error.
SetString(s, v) ==
    IF SetStringCase(v) # -1 THEN [s |-> SetStringCase(v), err |-> NoError]
    ELSE [s |-> TxStatusUnknown, err |-> Wrap(ErrInvalidTxStatus, v)]

\* func (s TxStatus) MarshalText() (text []byte, err error)
MarshalText(s) == [text |-> String(s), err |-> NoError]

\* func (s *TxStatus) UnmarshalText(text []byte) error
UnmarshalText(s, t) == SetString(s, t)

\* The 13 constants and three values that are none of them.
TxStatusValues == (0..11) \cup (107..110)

\* The strings handed to SetString and UnmarshalText beside the results of
\* String and MarshalText: names, and strings that are no name.
Strings ==
    { "UNKNOWN", "MINED", "SEEN_IN_ORPHAN_MEMPOOL", "", "mined", "MINED ",
      "PENDING", "SEEN_IN_ORPHAN" }

InitStatus ==
    /\ buf = <<>>
    /\ writes = <<>>
    /\ detxs = <<>>
    /\ txid = <<>>
    /\ cut = 0
    /\ calls = <<>>
    /\ pkg = PackageVars
    /\ client = NoClient
    /\ call = NoCall
    /\ txStatus \in [s : TxStatusValues, t : TxStatusValues]
    /\ text = NoCall

\* s.String()
DoString ==
    /\ text' = [fn |-> "String", v |-> String(txStatus.s), before |-> txStatus.t,
                of |-> "", err |-> NoError]
    /\ UNCHANGED <<buf, writes, detxs, txid, cut, concurrentVars, clientVars, txStatus>>

\* s.MarshalText()
DoMarshalText ==
    /\ text' = [fn |-> "MarshalText", v |-> MarshalText(txStatus.s).text,
                before |-> txStatus.t, of |-> "", err |-> MarshalText(txStatus.s).err]
    /\ UNCHANGED <<buf, writes, detxs, txid, cut, concurrentVars, clientVars, txStatus>>

\* t.SetString(v), v any string or the string s.String() just returned.
DoSetString ==
    /\ \E v \in Strings \cup (IF text.fn = "String" THEN {text.v} ELSE {}) :
          /\ txStatus' = [txStatus EXCEPT !.t = SetString(txStatus.t, v).s]
          /\ text' = [fn |-> "SetString", v |-> v, before |-> txStatus.t,
                      of |-> IF text.fn = "String" /\ v = text.v THEN "String" ELSE "",
                      err |-> SetString(txStatus.t, v).err]
    /\ UNCHANGED <<buf, writes, detxs, txid, cut, concurrentVars, clientVars>>

\* t.UnmarshalText(text), text any bytes or those s.MarshalText() just
\* returned.
DoUnmarshalText ==
    /\ \E v \in Strings \cup (IF text.fn = "MarshalText" THEN {text.v} ELSE {}) :
          /\ txStatus' = [txStatus EXCEPT !.t = UnmarshalText(txStatus.t, v).s]
          /\ text' = [fn |-> "UnmarshalText", v |-> v, before |-> txStatus.t,
                      of |-> IF text.fn = "MarshalText" /\ v = text.v THEN "MarshalText" ELSE "",
                      err |-> UnmarshalText(txStatus.t, v).err]
    /\ UNCHANGED <<buf, writes, detxs, txid, cut, concurrentVars, clientVars>>

NextStatus ==
    \/ DoString
    \/ DoMarshalText
    \/ DoSetString
    \/ DoUnmarshalText

SpecStatus == InitStatus /\ [][NextStatus]_vars

\* ------------------------------------------------------------------ claims
\* The buffer holds exactly one transaction written by Serialize, which
\* returned no error, and Deserialize was called on it.
RoundTrip ==
    /\ cut = 0
    /\ Len(writes) = 1
    /\ writes[1].op = "Serialize"
    /\ writes[1].err = ""
    /\ detxs # <<>>

\* Every spent output of the transaction is supplied by the resolver.
AllResolvable(tx) == \A i \in 1..Len(tx.TxIn) : tx.Spent[i].err = ""

\* The spent outputs of the transaction, in input order.
SpentOutputsOf(tx) == [i \in 1..Len(tx.TxIn) |-> tx.Spent[i].output]

\* C1: for every transaction whose spent outputs are all resolvable,
\* Deserialize(Serialize(tx)) succeeds and returns a transaction with the
\* identifier of the original and, when it has inputs, the original spent
\* outputs in input order.
C1_RoundTripAll ==
    (RoundTrip /\ AllResolvable(writes[1].tx)) =>
        /\ detxs[1].err = ""
        /\ TxHash(detxs[1].result.Tx) = TxHash(GetMsgTx(writes[1].tx))
        /\ (Len(writes[1].tx.TxIn) > 0 =>
                detxs[1].result.SpentOutputs = SpentOutputsOf(writes[1].tx))

\* C1 fails for this input: one coinbase input whose spent output the
\* resolver supplies.
C1_CoinbaseRoundTrip ==
    /\ RoundTrip
    /\ AllResolvable(writes[1].tx)
    /\ \E i \in 1..Len(writes[1].tx.TxIn) : IsZero(writes[1].tx.TxIn[i].Hash)

\* Both decoders were run on the bytes of the buffer from its first byte.
BothDecoded == detxs # <<>> /\ txid # <<>>

\* C2: on every stream on which Deserialize succeeds, in each branch,
\* DeserializeTxID returns the double hash of the plain serialization of the
\* transaction that Deserialize returns.
C2_TxIDMatchesDeserialize ==
    (BothDecoded /\ detxs[1].err = "") =>
        /\ txid[1].err = ""
        /\ txid[1].hash = DoubleHash(MsgTxSerialize(detxs[1].result.Tx))

\* C2 witness: the extended branch with an input, an output and both results.
C2_Witness ==
    /\ BothDecoded
    /\ detxs[1].err = ""
    /\ detxs[1].branch = "Extended"
    /\ Len(detxs[1].result.Tx.TxIn) > 0
    /\ Len(detxs[1].result.Tx.TxOut) > 0
    /\ txid[1].err = ""

\* C3: DeserializeTxID returns the same identifier for the extended
\* serialization that Serialize produced for a transaction as for the plain
\* serialization of that transaction.
C3_SameIDPlainAndExtended ==
    (Len(writes) = 1 /\ writes[1].op = "Serialize" /\ writes[1].err = "" /\ txid # <<>>
       /\ cut = 0) =>
        LET plain == DeserializeTxID(MsgTxSerialize(GetMsgTx(writes[1].tx)), 0)
        IN  /\ txid[1].hash = plain.hash
            /\ (txid[1].err = "") = (plain.err = "")

\* The Deserialize loop has stopped on a buffer that holds only complete
\* transactions written back-to-back by Serialize or MsgTx.Serialize.
BackToBackRead ==
    /\ writes # <<>>
    /\ cut = 0
    /\ \A k \in 1..Len(writes) : writes[k].op # "raw" /\ writes[k].err = ""
    /\ detxs # <<>>
    /\ ~MoreToRead

\* The reads of one call are contiguous and start at the given cursor.
Contiguous(reads, start) ==
    /\ reads # <<>>
    /\ reads[1].from = start
    /\ \A i \in 1..Len(reads) : reads[i].from <= reads[i].to
    /\ \A i \in 1..(Len(reads) - 1) : reads[i + 1].from = reads[i].to

\* C4: k transactions serialized back-to-back are returned in order by k
\* sequential Deserialize calls, each reading exactly the bytes of its
\* transaction, and the stream is exhausted after the last one.
C4_BackToBack ==
    BackToBackRead =>
        /\ Len(detxs) = Len(writes)
        /\ \A k \in 1..Len(detxs) :
              /\ k <= Len(writes)
              /\ detxs[k].err = ""
              /\ detxs[k].result.Tx = GetMsgTx(writes[k].tx)
              /\ Contiguous(detxs[k].reads, writes[k].from)
              /\ detxs[k].pos = writes[k].to
        /\ Cursor = Len(buf)

\* The cursor at which the k-th Deserialize call started.
StartOf(k) == IF k = 1 THEN 0 ELSE detxs[k - 1].pos

\* C5: Deserialize takes exactly one of the four branches, decided by the
\* values read so far, and its cursor only moves forward: plain with inputs
\* iff the first varint is > 0; plain with zero inputs iff the first is 0 and
\* the second > 0; plain empty iff both are 0 and the next four bytes are not
\* 00 00 00 EF; extended iff both are 0 and the next four bytes are 00 00 00 EF.
C5_BranchByValuesRead ==
    \A k \in 1..Len(detxs) :
        LET d == detxs[k]
            p == StartOf(k)
            first == ReadVarInt(Stream, p + 4)
            second == ReadVarInt(Stream, first.pos)
            hasLock == second.pos + 4 <= Len(Stream)
            lock == Raw(Stream, second.pos, second.pos + 4)
            zeros == first.ok /\ first.val = 0 /\ second.ok /\ second.val = 0 /\ hasLock
        IN  /\ d.branch \in {"none", "PlainWithInputs", "PlainZeroInputs",
                             "PlainEmpty", "Extended"}
            /\ (d.err = "" => d.branch # "none")
            /\ (p + 4 <= Len(Stream) =>
                  /\ (d.branch = "PlainWithInputs") = (first.ok /\ first.val > 0)
                  /\ (d.branch = "PlainZeroInputs") =
                        (first.ok /\ first.val = 0 /\ second.ok /\ second.val > 0)
                  /\ (d.branch = "PlainEmpty") = (zeros /\ lock # <<0, 0, 0, 239>>)
                  /\ (d.branch = "Extended") = (zeros /\ lock = <<0, 0, 0, 239>>))
            /\ (p + 4 > Len(Stream) => d.branch = "none")
            /\ Contiguous(d.reads, p)
            /\ d.pos = d.reads[Len(d.reads)].to

\* C5 witness: one reader has returned a transaction from the extended
\* branch and then one from a plain branch.
C5_Witness ==
    /\ Len(detxs) = 2
    /\ detxs[1].branch = "Extended" /\ detxs[1].err = ""
    /\ detxs[2].branch = "PlainZeroInputs" /\ detxs[2].err = ""

\* C6: in every result of Deserialize, SpentOutputs is empty or has one
\* element per input, element i being the output record that immediately
\* followed input record i in the stream; the plain branches leave it empty.
C6_SpentOutputsAligned ==
    \A k \in 1..Len(detxs) :
        LET d == detxs[k]
            spent == d.result.SpentOutputs
            inputs == d.result.Tx.TxIn
        IN  d.err = "" =>
              /\ spent = <<>> \/ Len(spent) = Len(inputs)
              /\ (d.branch # "Extended" => spent = <<>>)
              /\ (d.branch = "Extended" => Len(spent) = Len(inputs))
              /\ \A i \in 1..Len(spent) :
                    \E j \in 1..(Len(d.reads) - 1) :
                        /\ d.reads[j].kind = "input" /\ d.reads[j].index = i
                        /\ TxInSerialize(inputs[i]) = Raw(Stream, d.reads[j].from, d.reads[j].to)
                        /\ d.reads[j + 1].kind = "spent output"
                        /\ d.reads[j + 1].from = d.reads[j].to
                        /\ TxOutSerialize(spent[i])
                              = Raw(Stream, d.reads[j + 1].from, d.reads[j + 1].to)

\* C6 witness: an extended result with two inputs spending different outputs.
C6_Witness ==
    \E k \in 1..Len(detxs) :
        /\ detxs[k].err = ""
        /\ detxs[k].branch = "Extended"
        /\ Len(detxs[k].result.SpentOutputs) = 2
        /\ detxs[k].result.SpentOutputs[1] # detxs[k].result.SpentOutputs[2]

\* The Serialize calls made on the buffer.
SerializeCalls == { k \in 1..Len(writes) : writes[k].op = "Serialize" }

\* The positions of the writes of one kind for one index.
ChunksOf(chunks, kind, index) ==
    { j \in 1..Len(chunks) : chunks[j].kind = kind /\ chunks[j].index = index }

\* C7: for every input, coinbase or not, Serialize writes exactly one input
\* record immediately followed by exactly one output record, so that the
\* number of pairs equals the input count written before them.
C7_OnePairPerInput ==
    \A k \in SerializeCalls :
        LET w == writes[k]
        IN  w.err = "" =>
              /\ \A i \in 1..Len(w.tx.TxIn) :
                    /\ Cardinality(ChunksOf(w.chunks, "input", i)) = 1
                    /\ Cardinality(ChunksOf(w.chunks, "spent output", i)) = 1
                    /\ \A j \in ChunksOf(w.chunks, "input", i) :
                          j + 1 \in ChunksOf(w.chunks, "spent output", i)
              /\ Cardinality({ j \in 1..Len(w.chunks) : w.chunks[j].kind = "input" })
                    = Len(w.tx.TxIn)

\* C8: for a transaction without inputs the bytes written by Serialize are
\* those of the plain serialization, and no marker is written.
C8_ZeroInputsIsPlain ==
    \A k \in SerializeCalls :
        LET w == writes[k]
        IN  Len(w.tx.TxIn) = 0 =>
              /\ w.err = ""
              /\ Raw(buf, w.from, w.to) = MsgTxSerialize(GetMsgTx(w.tx))
              /\ \A j \in 1..Len(w.chunks) : w.chunks[j].kind # "marker"

\* C8 witness: Serialize wrote a transaction with no inputs and one output.
C8_Witness ==
    \E k \in SerializeCalls :
        Len(writes[k].tx.TxIn) = 0 /\ Len(writes[k].tx.TxOut) > 0

\* C9: Serialize writes the six bytes 00 00 00 00 00 EF right after the four
\* version bytes iff the transaction has inputs, and the input count follows
\* them; read as plain format, the bytes after the version are then an input
\* count of 0, an output count of 0 and the lock time 0xEF000000.
C9_MarkerIffInputs ==
    \A k \in SerializeCalls :
        LET w == writes[k]
            n == Len(w.tx.TxIn)
            marked == \E j \in 1..Len(w.chunks) : w.chunks[j].kind = "marker"
            first == ReadVarInt(buf, w.from + 4)
            second == ReadVarInt(buf, first.pos)
            lock == ReadUint32(buf, second.pos)
        IN  /\ marked = (n > 0)
            /\ w.chunks[1].kind = "version" /\ Len(w.chunks[1].bytes) = 4
            /\ n > 0 =>
                  /\ w.chunks[2].kind = "marker"
                  /\ w.chunks[2].bytes = <<0, 0, 0, 0, 0, 239>>
                  /\ Raw(buf, w.from + 4, w.from + 10) = <<0, 0, 0, 0, 0, 239>>
                  /\ w.chunks[3].kind = "input count"
                  /\ w.chunks[3].bytes = WriteVarInt(n)
                  /\ first.ok /\ first.val = 0
                  /\ second.ok /\ second.val = 0
                  /\ lock.ok /\ lock.val = <<239, 0, 0, 0>>
                  /\ ReadVarInt(buf, lock.pos).val = n
            /\ n = 0 => w.chunks[2].kind = "input count" /\ w.chunks[2].bytes = <<0>>

\* C9 witness: Serialize wrote a transaction with two inputs.
C9_Witness ==
    \E k \in SerializeCalls : Len(writes[k].tx.TxIn) = 2 /\ writes[k].err = ""

\* C10: if the resolver returns an error for a non-coinbase input i,
\* Serialize returns an error and writes nothing for input i nor for
\* anything after it: no later input, no output count, no output, no lock
\* time.
C10_MissingSpentOutputAborts ==
    \A k \in SerializeCalls :
        LET w == writes[k]
        IN  \A i \in 1..Len(w.tx.TxIn) :
              (~IsZero(w.tx.TxIn[i].Hash) /\ w.tx.Spent[i].err # "") =>
                 /\ w.err # ""
                 /\ \A j \in 1..Len(w.chunks) :
                       /\ w.chunks[j].kind \in {"input", "spent output"} =>
                             w.chunks[j].index < i
                       /\ w.chunks[j].kind \notin {"output count", "output", "lock time"}

\* C10 witness: the resolver failed for the second input, which is not a
\* coinbase, after the first input was written.
C10_Witness ==
    \E k \in SerializeCalls :
        /\ Len(writes[k].tx.TxIn) = 2
        /\ writes[k].tx.Spent[1].err = ""
        /\ ~IsZero(writes[k].tx.TxIn[2].Hash)
        /\ writes[k].tx.Spent[2].err # ""
        /\ writes[k].err # ""

\* The stream is a proper prefix of the bytes of one transaction on which
\* Deserialize succeeds.
ProperPrefix ==
    /\ cut > 0
    /\ Deserialize(buf, 0).err = ""
    /\ Len(Stream) < Deserialize(buf, 0).pos

\* The first count of the stream that is not zero is more than the number
\* of bytes that follow it.
DeclaresTooMuch ==
    LET first == ReadVarInt(Stream, 4)
        second == ReadVarInt(Stream, first.pos)
    IN  /\ first.ok
        /\ IF first.val > 0 THEN first.val > Len(Stream) - first.pos
           ELSE second.ok /\ second.val > Len(Stream) - second.pos

\* C11: on a stream that ends before the transaction is complete (a proper
\* prefix of a stream on which Deserialize succeeds, or a stream whose count
\* exceeds the remaining bytes), Deserialize returns an error and a nil
\* result and DeserializeTxID returns an error and the zero hash.
C11_IncompleteIsError ==
    (ProperPrefix \/ DeclaresTooMuch) =>
        /\ detxs # <<>> =>
              /\ detxs[1].returned
              /\ detxs[1].err # ""
              /\ detxs[1].result.nil
        /\ txid # <<>> =>
              /\ txid[1].err # ""
              /\ txid[1].hash = ZeroHash

\* The writes of a transaction with no inputs, no outputs and the lock time
\* 0xEF000000.
CollisionWrites ==
    { k \in 1..Len(writes) :
        /\ writes[k].op \in {"Serialize", "MsgTx.Serialize"}
        /\ writes[k].tx.TxIn = <<>> /\ writes[k].tx.TxOut = <<>>
        /\ writes[k].tx.LockTime = <<239, 0, 0, 0>> }

\* C12: the bytes of a transaction with 0 inputs, 0 outputs and lock time
\* 0xEF000000 are the version and the marker, as are the first 10 bytes of
\* every extended encoding; Deserialize and DeserializeTxID take the extended
\* branch on them and never return a plain empty transaction whose lock
\* time is 0xEF000000.
C12_CollisionIsExtended ==
    /\ \A k \in CollisionWrites :
          Raw(buf, writes[k].from, writes[k].to)
             = LittleEndianPut(writes[k].tx.Version) \o <<0, 0, 0, 0, 0, 239>>
    /\ \A k \in SerializeCalls :
          Len(writes[k].tx.TxIn) > 0 =>
             Raw(buf, writes[k].from, writes[k].from + 10)
                = LittleEndianPut(writes[k].tx.Version) \o <<0, 0, 0, 0, 0, 239>>
    /\ (1 \in CollisionWrites /\ Len(Stream) >= 10) =>
          /\ detxs # <<>> => detxs[1].branch = "Extended"
          /\ txid # <<>> => txid[1].branch = "Extended"
    /\ \A k \in 1..Len(detxs) :
          (detxs[k].err = "" /\ detxs[k].branch = "PlainEmpty") =>
              detxs[k].result.Tx.LockTime # <<239, 0, 0, 0>>
    /\ \A k \in 1..Len(txid) :
          (txid[k].err = "" /\ txid[k].branch = "PlainEmpty") =>
              SubSeq(txid[k].hashed, Len(txid[k].hashed) - 3, Len(txid[k].hashed))
                  # <<0, 0, 0, 239>>

\* C12 witness: both decoders ran on the bytes of such a transaction.
C12_Witness ==
    /\ 1 \in CollisionWrites
    /\ cut = 0
    /\ detxs # <<>> /\ detxs[1].branch = "Extended"
    /\ txid # <<>> /\ txid[1].branch = "Extended"

\* The first Deserialize call was made on all the bytes of a buffer whose
\* first transaction has no inputs.
ZeroInputsRead ==
    /\ writes # <<>>
    /\ writes[1].op \in {"Serialize", "MsgTx.Serialize"}
    /\ writes[1].tx.TxIn = <<>>
    /\ cut = 0
    /\ detxs # <<>>

\* C13 as stated: every transaction with 0 inputs and lock time 12345,
\* whatever its outputs, is decoded through the plain empty branch and
\* yields empty SpentOutputs.
C13_ZeroInputsPlainEmpty ==
    (ZeroInputsRead /\ writes[1].tx.LockTime = <<0, 0, 48, 57>>) =>
        /\ detxs[1].err = ""
        /\ detxs[1].branch = "PlainEmpty"
        /\ detxs[1].result.SpentOutputs = <<>>

\* C13 amended: a transaction with 0 inputs and lock time 12345 is decoded
\* through the plain empty branch when it has no outputs and through the
\* plain zero inputs branch when it has outputs; in both cases Deserialize
\* returns the transaction with empty SpentOutputs.
C13_ZeroInputsByOutputs ==
    (ZeroInputsRead /\ writes[1].tx.LockTime = <<0, 0, 48, 57>>) =>
        /\ detxs[1].err = ""
        /\ detxs[1].branch = IF writes[1].tx.TxOut = <<>> THEN "PlainEmpty"
                              ELSE "PlainZeroInputs"
        /\ detxs[1].result.Tx = GetMsgTx(writes[1].tx)
        /\ detxs[1].result.SpentOutputs = <<>>

\* C13 witness: a transaction with no inputs, outputs and lock time 12345
\* written by Serialize was decoded.
C13_Witness ==
    /\ ZeroInputsRead
    /\ writes[1].op = "Serialize"
    /\ writes[1].tx.LockTime = <<0, 0, 48, 57>>
    /\ writes[1].tx.TxOut # <<>>
    /\ detxs[1].branch = "PlainZeroInputs"

\* C14: for a transaction with 0 inputs, 0 outputs and a lock time other
\* than 0xEF000000, Serialize writes the 10 bytes of the plain serialization,
\* Deserialize decodes them through the plain empty branch with that lock
\* time and empty SpentOutputs, and DeserializeTxID returns the identifier of
\* the transaction.
C14_EmptyTransaction ==
    (/\ writes # <<>>
     /\ writes[1].op \in {"Serialize", "MsgTx.Serialize"}
     /\ writes[1].tx.TxIn = <<>> /\ writes[1].tx.TxOut = <<>>
     /\ writes[1].tx.LockTime # <<239, 0, 0, 0>>) =>
        /\ writes[1].err = ""
        /\ writes[1].to = 10
        /\ Raw(buf, 0, 10) = MsgTxSerialize(GetMsgTx(writes[1].tx))
        /\ (cut = 0 /\ detxs # <<>>) =>
              /\ detxs[1].err = ""
              /\ detxs[1].branch = "PlainEmpty"
              /\ detxs[1].pos = 10
              /\ detxs[1].result.Tx.LockTime = writes[1].tx.LockTime
              /\ detxs[1].result.Tx.TxIn = <<>> /\ detxs[1].result.Tx.TxOut = <<>>
              /\ detxs[1].result.SpentOutputs = <<>>
        /\ (cut = 0 /\ txid # <<>>) =>
              /\ txid[1].err = ""
              /\ txid[1].branch = "PlainEmpty"
              /\ txid[1].hash = TxHash(GetMsgTx(writes[1].tx))

\* C14 witness: Serialize wrote the transaction without inputs and outputs
\* and with lock time 0, and both decoders ran on the bytes.
C14_Witness ==
    /\ writes # <<>>
    /\ writes[1].op = "Serialize"
    /\ writes[1].tx.TxIn = <<>> /\ writes[1].tx.TxOut = <<>>
    /\ writes[1].tx.LockTime = <<0, 0, 0, 0>>
    /\ cut = 0
    /\ detxs # <<>> /\ detxs[1].err = ""
    /\ txid # <<>> /\ txid[1].err = ""

\* What a finished invocation returned and wrote or consumed is what the
\* same invocation gives when it runs alone.
AsAlone(c) ==
    CASE c.fn = "Serialize" -> c.out = Serialize(c.tx).chunks
      [] c.fn = "Deserialize" -> DeserializeReturn(c.st) = Deserialize(c.s, 0)
      [] c.fn = "DeserializeTxID" -> TxIDReturn(c.st) = DeserializeTxID(c.s, 0)

\* C15: whatever the interleaving of the invocations, each finished
\* invocation has the result and the bytes written or consumed of the same
\* invocation running alone, and Marker and endian are never modified.
C15_Reentrant ==
    /\ pkg = PackageVars
    /\ \A i \in 1..Len(calls) : Finished(calls[i]) => AsAlone(calls[i])

\* C15 witness: a Serialize invocation that wrote the marker finished after
\* another invocation had started and before that one finished.
C15_Witness ==
    /\ Len(calls) = 2
    /\ calls[2].fn = "Serialize" /\ calls[2].tx.TxIn # <<>> /\ Finished(calls[2])
    /\ calls[1].fn # "Serialize" /\ ~Finished(calls[1]) /\ calls[1].st.reads # <<>>

\* C16: IsInvalidTxError is true of the error a call returned exactly when
\* the call was SubmitTx, SubmitTxBytes, SubmitTxs or SubmitTxsBytes and the
\* service answered it with status 461, 462, 463, 464 or 465.
SubmitFns == {"SubmitTx", "SubmitTxBytes", "SubmitTxs", "SubmitTxsBytes"}

AnsweredInvalidTx ==
    /\ call.fn \in SubmitFns
    /\ call.answer.kind = "response"
    /\ call.answer.status \in {461, 462, 463, 464, 465}

C16_InvalidTxErrors ==
    (client.revision = "arc.go" /\ call # NoCall)
        => (IsInvalidTxError(call.err) <=> AnsweredInvalidTx)

\* C17: every request of the client is sent to its base URL and the path
\* of the endpoint with exactly one '/' between them, the "//" after the
\* scheme kept.
SingleSlashJoin(base, elem) ==
    (IF base[Len(base)] = "/" THEN SubSeq(base, 1, Len(base) - 1) ELSE base)
    \o <<"/">>
    \o (IF elem[1] = "/" THEN Tail(elem) ELSE elem)

C17_RequestURL ==
    call # NoCall =>
        \A i \in 1..Len(call.sent) :
            call.sent[i].url = SingleSlashJoin(client.url, call.elem)

\* C18: in the Extended branch DeserializeTxID feeds the digest exactly, in
\* order, the version, the actual input count, each input, the output
\* count, each output and the lock time as they stand in the stream; the
\* two zero counts, the marker lock time and the output paired with each
\* input are consumed and not hashed.
HashedRead(reads, i) ==
    \/ reads[i].kind \in {"version", "actual input count", "input", "output"}
    \/ i > 4 /\ reads[i].kind \in {"output count", "lock time"}

FedInOrder(s, reads) ==
    Flatten([i \in 1..Len(reads) |->
                IF HashedRead(reads, i) THEN Raw(s, reads[i].from, reads[i].to)
                ELSE <<>>])

\* The reads of a whole extended transaction with n inputs and m outputs.
ExtendedReads(s, reads, n, m) ==
    /\ Len(reads) = 7 + 2 * n + m
    /\ reads[1].kind = "version" /\ reads[1].to = reads[1].from + 4
    /\ reads[2].kind = "input count" /\ Raw(s, reads[2].from, reads[2].to) = <<0>>
    /\ reads[3].kind = "output count" /\ Raw(s, reads[3].from, reads[3].to) = <<0>>
    /\ reads[4].kind = "lock time"
    /\ Raw(s, reads[4].from, reads[4].to) = LittleEndianPut(MarkerLockTime)
    /\ reads[5].kind = "actual input count"
    /\ \A j \in 1..n :
          /\ reads[4 + 2 * j] = [reads[4 + 2 * j] EXCEPT !.kind = "input", !.index = j]
          /\ reads[5 + 2 * j] = [reads[5 + 2 * j] EXCEPT !.kind = "spent output", !.index = j]
    /\ reads[6 + 2 * n].kind = "output count"
    /\ \A j \in 1..m :
          reads[6 + 2 * n + j] = [reads[6 + 2 * n + j] EXCEPT !.kind = "output", !.index = j]
    /\ reads[7 + 2 * n + m].kind = "lock time"
    /\ reads[7 + 2 * n + m].to = reads[7 + 2 * n + m].from + 4

C18_ExtendedDigest ==
    \A k \in 1..Len(txid) :
        txid[k].branch = "Extended" =>
            /\ Contiguous(txid[k].reads, 0)
            /\ txid[k].hashed = FedInOrder(Stream, txid[k].reads)
            /\ txid[k].err = "" =>
                  ExtendedReads(Stream, txid[k].reads,
                      Cardinality({i \in 1..Len(txid[k].reads) : txid[k].reads[i].kind = "input"}),
                      Cardinality({i \in 1..Len(txid[k].reads) : txid[k].reads[i].kind = "output"}))

\* C18 witness: an identifier computed in the extended branch over an input
\* with its paired output and an output.
C18_Witness ==
    /\ txid # <<>>
    /\ txid[1].branch = "Extended"
    /\ txid[1].err = ""
    /\ \E i \in 1..Len(txid[1].reads) : txid[1].reads[i].kind = "spent output"
    /\ \E i \in 1..Len(txid[1].reads) : txid[1].reads[i].kind = "output"

\* C19: each of the 13 TxStatus constants has a non-empty name that no other
\* constant has, SetString of the name String returned for it succeeds and
\* sets the receiver to it, and so does UnmarshalText of what MarshalText
\* returned.
Defined ==
    { TxStatusUnknown, TxStatusQueued, TxStatusReceived, TxStatusStored,
      TxStatusAnnounced, TxStatusRequested, TxStatusSent, TxStatusAccepted,
      TxStatusSeen, TxStatusMined, TxStatusOrphaned, TxStatusConfirmed,
      TxStatusRejected }

C19_NamesRoundTrip ==
    /\ Cardinality(Defined) = 13
    /\ (text.fn \in {"String", "MarshalText"} /\ txStatus.s \in Defined) =>
          /\ text.v # ""
          /\ text.err.type = "nil"
          /\ \A o \in Defined \ {txStatus.s} : String(o) # text.v
    /\ (text.fn \in {"SetString", "UnmarshalText"} /\ text.of # ""
          /\ txStatus.s \in Defined) =>
          /\ text.err.type = "nil"
          /\ txStatus.t = txStatus.s

\* C19 witness: the name of a constant set on a receiver that held another
\* value.
C19_Witness ==
    /\ text.fn = "SetString"
    /\ text.of = "String"
    /\ txStatus.s = TxStatusOrphaned
    /\ text.before # txStatus.s
    /\ txStatus.t = txStatus.s

\* C20: SetString and UnmarshalText of a string that is none of the 13
\* names leave the receiver TxStatusUnknown, whatever it held, and return an
\* error whose cause is ErrInvalidTxStatus; the empty string that String
\* returns for a value that is no constant is such a string.
Names == {String(s) : s \in Defined}

C20_InvalidString ==
    /\ (text.fn \in {"SetString", "UnmarshalText"} /\ text.v \notin Names) =>
          /\ txStatus.t = TxStatusUnknown
          /\ Cause(text.err) = ErrInvalidTxStatus
    /\ (text.fn \in {"String", "MarshalText"} /\ txStatus.s \notin Defined) =>
          text.v = "" /\ text.v \notin Names

\* C20 witness: the empty string String returned for a value that is no
\* constant, set on a receiver that held TxStatusMined.
C20_Witness ==
    /\ text.fn = "SetString"
    /\ text.of = "String"
    /\ text.v = ""
    /\ txStatus.s \notin Defined
    /\ text.before = TxStatusMined
    /\ txStatus.t = TxStatusUnknown
    /\ text.err.type # "nil"

\* C25: on every stream Deserialize and DeserializeTxID both succeed or both
\* fail, take the same branch and consume the same number of bytes.
C25_DecodersAgree ==
    BothDecoded =>
        /\ detxs[1].returned
        /\ (detxs[1].err = "") = (txid[1].err = "")
        /\ detxs[1].branch = txid[1].branch
        /\ detxs[1].pos = txid[1].pos

\* C26: when Deserialize succeeds on the bytes Serialize wrote for a
\* transaction, Serialize of the decoded result writes the same bytes.
C26_SerializeAgain ==
    (RoundTrip /\ detxs[1].err = "") =>
        LET again == Serialize(TransactionWithOutputs(detxs[1].result))
        IN  /\ again.err = ""
            /\ ChunkBytes(again.chunks) = buf

\* C21: Factory.NewClient returns a client and a nil error exactly for the
\* URLs that start with "https://", and for every other URL a nil client
\* and the error "Unsupported URL protocol".
StartsWithHTTPS(u) == Len(u) >= 3 /\ u[1] = "https:" /\ u[2] = "/" /\ u[3] = "/"

C21_OnlyHTTPS ==
    call.fn = "NewClient" =>
        IF StartsWithHTTPS(call.url)
        THEN /\ call.err.type = "nil"
             /\ client # NoClient
             /\ client.url = call.url
        ELSE /\ client = NoClient
             /\ call.err.type # "nil"
             /\ call.err.kind = "Unsupported URL protocol"

\* C21 witness: an http:// URL refused.
C21_Witness ==
    /\ call.fn = "NewClient"
    /\ call.url = <<"http:", "/", "/", "miner.test", "/", "arc">>
    /\ client = NoClient
    /\ call.err.kind = "Unsupported URL protocol"

\* C22: with a callback URL every request of SubmitTxBytes and
\* SubmitTxsBytes carries X-CallbackUrl, X-FullStatusUpdates = "true" and
\* X-WaitForStatus = "2"; when the callback URL is a peer channel with a
\* token, the token is in X-CallbackToken only and X-CallbackUrl is the
\* masked URL; without a callback URL none of the four headers is sent.
CallbackKeys ==
    { CanonicalMIMEHeaderKey(k) :
        k \in {"X-CallbackUrl", "X-CallbackToken", "X-FullStatusUpdates", "X-WaitForStatus"} }

\* The piece occurs in a value of the header other than those of key.
OccursOutside(h, key, piece) ==
    \E k \in DOMAIN h \ {key} :
        \E i \in 1..Len(h[k]) : \E j \in 1..Len(h[k][i]) : h[k][i][j] = piece

SubmitSent == client.revision = "arc.go" /\ call.fn \in SubmitFns /\ call.sent # <<>>

C22_CallbackHeaders ==
    SubmitSent =>
        LET h == call.sent[1].header
            channel == ParseChannel(client.callBackURL)
        IN  IF client.callBackURL = <<>> THEN DOMAIN h \cap CallbackKeys = {}
            ELSE /\ CallbackKeys \ {CanonicalMIMEHeaderKey("X-CallbackToken")} \subseteq DOMAIN h
                 /\ Len(h[CanonicalMIMEHeaderKey("X-CallbackUrl")]) = 1
                 /\ h[CanonicalMIMEHeaderKey("X-FullStatusUpdates")] = << <<"true">> >>
                 /\ h[CanonicalMIMEHeaderKey("X-WaitForStatus")] = << <<"2">> >>
                 /\ (channel.err = "" /\ channel.Token # "") =>
                       /\ CanonicalMIMEHeaderKey("X-CallbackToken") \in DOMAIN h
                       /\ h[CanonicalMIMEHeaderKey("X-CallbackToken")] = << <<channel.Token>> >>
                       /\ h[CanonicalMIMEHeaderKey("X-CallbackUrl")] = << MaskedString(channel) >>
                       /\ ~OccursOutside(h, CanonicalMIMEHeaderKey("X-CallbackToken"),
                                         channel.Token)
                       /\ \A i \in 1..Len(call.sent[1].url) :
                             call.sent[1].url[i] # channel.Token

\* C22 witness: transactions submitted with a peer channel with a token as
\* callback URL.
C22_Witness ==
    /\ SubmitSent
    /\ call.fn = "SubmitTxs"
    /\ ParseChannel(client.callBackURL).Token = "t0k3n"
    /\ CanonicalMIMEHeaderKey("X-CallbackToken") \in DOMAIN call.sent[1].header

\* C23: get and post return nil only for a response with a status in
\* 200..299; for status 504 an error whose cause is ErrTimeout; for every
\* other status an HTTPError with the status, the body that was read as
\* Message and the description of the table where it has one, the response
\* object of the caller left as it was.
RequestAnswered ==
    /\ client.revision = "arc.go"
    /\ call # NoCall
    /\ call.fn # "NewClient"
    /\ call.sent # <<>>

C23_StatusHandling ==
    RequestAnswered =>
        LET a == call.answer
            r == call.inner
            failed == a.kind = "response" /\ (a.status < 200 \/ a.status > 299)
        IN  /\ r.err.type = "nil" =>
                  a.kind = "response" /\ a.status >= 200 /\ a.status <= 299
            /\ (failed /\ a.status = 504) => Cause(r.err) = ErrTimeout
            /\ (failed /\ a.status # 504) =>
                  /\ r.err.type = "HTTPError"
                  /\ r.err.Status = a.status
                  /\ r.err.Message = (IF a.body = "read error" THEN "" ELSE a.body)
                  /\ r.err.Description =
                        (IF a.status \in DOMAIN httpStatusDescriptions
                         THEN httpStatusDescriptions[a.status] ELSE "")
            /\ failed => r.response = "zero"

\* C23 witness: a 504 answer to a GET.
C23_Witness ==
    /\ RequestAnswered
    /\ call.fn = "GetTxStatus"
    /\ call.answer.kind = "response"
    /\ call.answer.status = 504
    /\ call.inner.err.kind = "Timeout"

\* The transactions of a list that Serialize rejects, by position.
FailingTxs(txs) == {i \in 1..Len(txs) : Serialize(txs[i]).err # ""}

\* The serializations of the transactions of a list, one after the other.
Serializations(txs) ==
    Flatten([i \in 1..Len(txs) |-> ChunkBytes(Serialize(txs[i]).chunks)])

====
